---- MODULE Spec2Model ----
(***************************************************************************)
(* AuraCX backend: the dual-mode request orchestrator.                     *)
(*                                                                         *)
(* Synthesizer.process_request masks the message, classifies it with one   *)
(* generative call, compares the classifier's confidence with              *)
(* CONFIDENCE_THRESHOLD and then either dispatches to the knowledge agents *)
(* and phrases an answer (tooling mode) or runs the six-stage RAG pipeline *)
(* (RAG mode).  One request is followed from its arrival to its            *)
(* ChatResponse; every generative call is an input that may return text,   *)
(* return no content, or raise.                                            *)
(*                                                                         *)
(* Numbers: a confidence or a score is kept in hundredths (0.7 is 70).     *)
(* Text: a string the code only passes along is a token; a string the code *)
(* inspects (lower(), replace(), split(), "in") is a sequence of           *)
(* characters.                                                             *)
(***************************************************************************)
EXTENDS Integers, Sequences, FiniteSets, TLC

VARIABLES
    pc,             \* position of the request inside process_request
    corpus,         \* RAGService.documents, loaded once at process start
    request,        \* the ChatRequest being handled
    intent_result,  \* the IntentResult of this request
    agent_data,     \* the dispatcher's data bag
    trace,          \* the calls and the threshold comparison so far, in order
    rewritten,      \* process_query: the rewritten query
    documents,      \* process_query: the documents held by the pipeline
    context,        \* process_query: the compressed context
    answer,         \* process_query: the generated answer
    is_hallucinating, \* process_query: the verdict of the validate stage
    rag_result,     \* the PipelineResult returned by process_query
    response,       \* the ChatResponse returned by process_request
    returned,       \* how many ChatResponses this request has returned
    masked_message, \* process_request: the text mask_text returned
    pii_found,      \* process_request: what mask_text found, by kind
    prompts,        \* the message text each generative call's prompt embeds
    scored_docs     \* _rerank_documents: the (document, score) pairs so far

vars == << pc, corpus, request, intent_result, agent_data, trace,
           rewritten, documents, context, answer, is_hallucinating,
           rag_result, response, returned, masked_message, pii_found,
           prompts, scored_docs >>

(***************************************************************************)
(* Bounds of the model.                                                    *)
(***************************************************************************)
\* the largest corpus the request specification loads
MaxCorpus == 1
\* the largest corpus the pipeline specification loads
MaxDocs == 4
\* the largest similarity (0..MaxSim) the vector search gives a document
MaxSim == 1
\* find_nearby_stores is called from 0..MaxOffset steps east and north of
\* each store
MaxOffset == 1

(***************************************************************************)
(* Python values.                                                          *)
(***************************************************************************)
\* Python's None, where a token stands for the value
None == "None"
\* a key that is not in a mapping
Absent == [t |-> "absent"]
\* a JSON null
Null == [t |-> "null"]
\* a string value, as its characters
Str(s) == [t |-> "str", s |-> s]
\* a JSON number, in hundredths
Num(n) == [t |-> "num", n |-> n]

\* float("nan"): a float that compares false with everything
NaN == -1000000
\* a < b on floats
FloatLt(a, b) == a # NaN /\ b # NaN /\ a < b
\* a >= b on floats
FloatGe(a, b) == a # NaN /\ b # NaN /\ a >= b
Min(a, b) == IF a <= b THEN a ELSE b

\* one entry of the trace: what ran and how it ended
Event(op, outcome) == [op |-> op, outcome |-> outcome]
\* how a generative call ended: it raised, or it returned
CallOutcome(reply) == IF reply.kind = "error" THEN "error" ELSE "ok"

CONFIDENCE_THRESHOLD == 70

Intents == { "store_hours", "stock_check", "order_status",
             "location_recommendation", "product_recommendation", "other" }

(***************************************************************************)
(* Text the code inspects: str.lower(), str.replace(), "x in s".           *)
(***************************************************************************)
UpperCase == << "A","B","C","D","E","F","G","H","I","J","K","L","M",
                "N","O","P","Q","R","S","T","U","V","W","X","Y","Z" >>
LowerCase == << "a","b","c","d","e","f","g","h","i","j","k","l","m",
                "n","o","p","q","r","s","t","u","v","w","x","y","z" >>
LowerChar(c) ==
    IF \E i \in 1..Len(UpperCase) : UpperCase[i] = c
    THEN LowerCase[CHOOSE i \in 1..Len(UpperCase) : UpperCase[i] = c]
    ELSE c
\* s.lower()
Lower(s) == [i \in 1..Len(s) |-> LowerChar(s[i])]
\* s.replace(a, b) for single characters a and b
ReplaceChar(s, a, b) == [i \in 1..Len(s) |-> IF s[i] = a THEN b ELSE s[i]]
\* sub in s
Contains(s, sub) ==
    \E i \in 0..(Len(s) - Len(sub)) :
        \A j \in 1..Len(sub) : s[i + j] = sub[j]

(***************************************************************************)
(* The generative call: llm_client.query returns text, returns no content  *)
(* or raises.  The classifier's text is JSON (json_mode) or not.           *)
(***************************************************************************)
\* the values the "entities" mapping may give its product and order_id keys
ProductValues ==
    { Absent, Str(<< "H","o","t"," ","C","o","c","o","a" >>),
      Str(<< "t","e","a" >>), Num(4200), Null }
OrderIdValues ==
    { Absent, Str(<< "1","2","3","4" >>), Str(<< "9","9","9","9" >>),
      Str(<< >>), [t |-> "list"] }
\* the entities mappings the classifier's JSON may carry
EntityDicts ==
    { [t |-> "dict", product |-> p, order_id |-> Absent] : p \in ProductValues }
    \cup { [t |-> "dict", product |-> Absent, order_id |-> o] : o \in OrderIdValues }
NoEntities == [t |-> "dict", product |-> Absent, order_id |-> Absent]

IntentFields == { Absent, Null } \cup { Str(i) : i \in Intents \cup { "greeting" } }
ConfidenceFields ==
    { Absent, Null, Num(30), Num(70), Num(150), Str("nan"), Str("high") }
EmotionFields == { Absent, Str("frustrated") }
EntitiesFields == { Absent, Null } \cup EntityDicts

\* what llm_client.query may give the classifier
ClassifierReplies ==
    { [kind |-> "error"], [kind |-> "none"], [kind |-> "invalid"],
      [kind |-> "array"] }
    \cup { [kind |-> "object", intent |-> i, confidence |-> c,
            emotion |-> e, entities |-> n] :
           i \in IntentFields, c \in ConfidenceFields,
           e \in EmotionFields, n \in EntitiesFields }

\* data.get(key, default)
Get(field, default) == IF field = Absent THEN default ELSE field

\* float(x): TRUE when it raises
FloatRaises(x) ==
    \/ x.t = "null"
    \/ x.t = "str" /\ x.s \notin { "nan" }
\* float(x) in hundredths
FloatOf(x) == IF x.t = "str" THEN NaN ELSE x.n

\* an except branch that reuses the default confidence of a missing key
FallbackIntentDefault ==
    [ intent |-> "other", confidence |-> 50, emotion |-> "neutral",
      entities |-> NoEntities ]
\* the IntentResult of the except branch
FallbackIntent ==
    [ intent |-> "other", confidence |-> 0, emotion |-> "neutral",
      entities |-> NoEntities ]

\* IntentAgent.detect_intent, given what the generative call did
detect_intent(reply) ==
    IF reply.kind \in { "error", "none", "array" }
    THEN FallbackIntent
    ELSE
      LET data == IF reply.kind = "invalid"
                  THEN [intent |-> Absent, confidence |-> Absent,
                        emotion |-> Absent, entities |-> Absent]
                  ELSE reply
          i == Get(data.intent, Str("other"))
          c == Get(data.confidence, Num(50))
          e == Get(data.emotion, Null)
          n == Get(data.entities, NoEntities)
      IN  IF i.t # "str" \/ FloatRaises(c) \/ n.t # "dict"
          THEN FallbackIntent
          ELSE [ intent |-> i.s, confidence |-> FloatOf(c),
                 emotion |-> IF e.t = "str" THEN e.s ELSE None,
                 entities |-> n ]

\* how the classification ended: the call raised ("error"), returned no
\* content ("none"), text that is no JSON ("invalid"), JSON that is no
\* object ("array"), an object whose fields fail float() or the IntentResult
\* validation ("mistyped"), or an object that is accepted ("object")
classify_outcome(reply) ==
    IF reply.kind # "object" THEN reply.kind
    ELSE IF \/ Get(reply.intent, Str("other")).t # "str"
            \/ FloatRaises(Get(reply.confidence, Num(50)))
            \/ Get(reply.entities, NoEntities).t # "dict"
         THEN "mistyped"
         ELSE "object"

(***************************************************************************)
(* Knowledge agents: the mock tables and their lookups.                    *)
(* Coordinates are in hundredths of a degree.                              *)
(***************************************************************************)
\* StoreAgent.STORES, in the dictionary's order
STORES ==
    << [store_id |-> "starbucks_downtown", name |-> "Starbucks Downtown",
        latitude |-> 4071, longitude |-> -7401, phone |-> "+1-555-0101",
        address |-> "123 Main St, New York, NY", hours |-> "hours_downtown"],
       [store_id |-> "starbucks_phoenix", name |-> "Starbucks Phoenix",
        latitude |-> 3345, longitude |-> -11207, phone |-> "+1-555-0102",
        address |-> "456 Central Ave, Phoenix, AZ", hours |-> "hours_phoenix"],
       [store_id |-> "starbucks_la", name |-> "Starbucks Los Angeles",
        latitude |-> 3405, longitude |-> -11824, phone |-> "+1-555-0103",
        address |-> "789 Sunset Blvd, Los Angeles, CA", hours |-> "hours_la"] >>

Abs(x) == IF x < 0 THEN -x ELSE x
\* lat_diff ** 2 + lon_diff ** 2, in squared hundredths of a degree
Distance2(store_info, user_location) ==
    LET lat_diff == Abs(store_info.latitude - user_location.latitude)
        lon_diff == Abs(store_info.longitude - user_location.longitude)
    IN  lat_diff * lat_diff + lon_diff * lon_diff
\* the radius test written with < : a store at the radius is left out
WithinKmStrict(d2, max_distance_km) ==
    /\ max_distance_km >= 0
    /\ d2 < (max_distance_km * max_distance_km * 10000) \div (111 * 111)
\* sqrt(d2) * 111 <= max_distance_km, with d2 in squared hundredths of a
\* degree: d2 * 111^2 <= (100 * max_distance_km)^2
WithinKm(d2, max_distance_km) ==
    /\ max_distance_km >= 0
    /\ d2 <= (max_distance_km * max_distance_km * 10000) \div (111 * 111)

\* the integer square root of x, looked for in lo..hi
IntRoot(x, lo, hi) ==
    CHOOSE r \in lo..hi : r * r <= x /\ x < (r + 1) * (r + 1)
\* round(((lat_diff ** 2 + lon_diff ** 2) ** 0.5) * 111, 2), in hundredths of
\* a kilometre: the square root of 111^2 * d2, rounded to the nearest integer
RoundedKm(d2) ==
    LET Rounded(v) ==
            LET x == 111 * 111 * v
                degrees == IntRoot(v, 0, 400)
                r == IntRoot(x, 111 * degrees, 111 * degrees + 111)
            IN  IF x - r * r > r THEN r + 1 ELSE r
    IN  CHOOSE km \in { Rounded(v) : v \in { d2 } } : TRUE

\* x inserted into the sorted sequence s after every element not above it;
\* the elements are pairs << key, value >>
RECURSIVE InsertSorted(_, _)
InsertSorted(s, x) ==
    IF s = << >> THEN << x >>
    ELSE IF Head(s)[1] <= x[1]
         THEN << Head(s) >> \o InsertSorted(Tail(s), x)
         ELSE << x >> \o s
\* sorted(s, key=lambda p: p[0]): ascending and stable
RECURSIVE SortedByKey(_)
SortedByKey(s) ==
    IF s = << >> THEN << >>
    ELSE InsertSorted(SortedByKey(SubSeq(s, 1, Len(s) - 1)), s[Len(s)])

\* the stores in range in the order of STORES, without the final sort
find_nearby_stores_unsorted(user_location, max_distance_km) ==
    LET Near(st) == WithinKm(Distance2(st, user_location), max_distance_km)
        kept == SelectSeq(STORES, Near)
    IN  [i \in 1..Len(kept) |->
           [store_id |-> kept[i].store_id, name |-> kept[i].name,
            distance_km |-> RoundedKm(Distance2(kept[i], user_location)),
            address |-> kept[i].address, phone |-> kept[i].phone]]
\* StoreAgent.find_nearby_stores; distance_km is in hundredths of a kilometre
find_nearby_stores(user_location, max_distance_km) ==
    LET Near(st) == WithinKm(Distance2(st, user_location), max_distance_km)
        Entry(st) == [store_id |-> st.store_id, name |-> st.name,
                      distance_km |-> RoundedKm(Distance2(st, user_location)),
                      address |-> st.address, phone |-> st.phone]
        kept == SelectSeq(STORES, Near)
        nearby == [i \in 1..Len(kept) |->
                     << Entry(kept[i]).distance_km, Entry(kept[i]) >>]
        sorted == SortedByKey(nearby)
    IN  [i \in 1..Len(sorted) |-> sorted[i][2]]

\* a lookup that finds no store
get_store_hours_missing(store_id) == [t |-> "none"]
\* StoreAgent.get_store_hours
get_store_hours(store_id) ==
    IF \E i \in 1..Len(STORES) : STORES[i].store_id = store_id
    THEN LET store == STORES[CHOOSE i \in 1..Len(STORES) :
                                 STORES[i].store_id = store_id]
         IN  [t |-> "hours", store_name |-> store.name, hours |-> store.hours,
              phone |-> store.phone, address |-> store.address]
    ELSE [t |-> "none"]

\* InventoryAgent.INVENTORY: every store stocks the same six products
InventoryProducts ==
    { << "h","o","t","_","c","o","c","o","a" >>, << "c","o","f","f","e","e" >>,
      << "l","a","t","t","e" >>, << "c","a","p","p","u","c","c","i","n","o" >>,
      << "i","c","e","d","_","c","o","f","f","e","e" >>,
      << "p","a","s","t","r","y" >> }
InventoryStores == { "starbucks_downtown", "starbucks_phoenix", "starbucks_la" }

\* InventoryAgent.check_availability raises: product is no string
check_availability_raises(store_id, product) ==
    store_id \in InventoryStores /\ product.t # "str"
\* InventoryAgent.check_availability
check_availability(store_id, product) ==
    IF store_id \notin InventoryStores
    THEN [available |-> FALSE, error |-> "Store not found"]
    ELSE LET product_lower == ReplaceChar(Lower(product.s), " ", "_")
         IN  IF product_lower \notin InventoryProducts
             THEN [product |-> product, available |-> FALSE,
                   reason |-> "Product not found in this store"]
             ELSE [product |-> product, available |-> TRUE,
                   message |-> << "In stock at", store_id >>]

\* OrderAgent.ORDERS: the order ids
ORDERS == { << "1","0","0","1" >>, << "1","0","0","2" >>,
            << "1","2","3","4" >>, << "1","0","0","3" >> }
\* a test that takes every value of the key, the empty string too, as an id
IsPresent(v) == v.t # "absent"
\* "if order_id:" on an entity value
Truthy(v) ==
    \/ v.t = "str" /\ v.s # << >>
    \/ v.t = "num" /\ v.n # 0
    \/ v.t = "list"
\* OrderAgent.get_order_status raises: the key is unhashable
get_order_status_raises(order_id) == order_id.t = "list"
\* OrderAgent.get_order_status
get_order_status(order_id) ==
    IF order_id.t = "str" /\ order_id.s \in ORDERS
    THEN [order_id |-> order_id, found |-> TRUE]
    ELSE [order_id |-> order_id, found |-> FALSE, error |-> "Order not found"]

\* OffersAgent.OFFERS, in the list's order
OFFERS ==
    << [id |-> << "W","E","L","C","O","M","E","1","0" >>, code |-> "WELCOME10",
        discount |-> 10, type |-> "percentage", categories |-> { "all" }],
       [id |-> << "H","O","T","_","C","O","C","O","A","_","C","O","U","P","O","N" >>,
        code |-> "HOT10",
        discount |-> 10, type |-> "percentage", categories |-> { "hot_drinks" }],
       [id |-> << "S","U","M","M","E","R","_","C","O","L","D" >>, code |-> "COLD15",
        discount |-> 15, type |-> "percentage", categories |-> { "cold_drinks" }],
       [id |-> << "P","A","S","T","R","Y","_","D","E","A","L" >>, code |-> "PASTRY20",
        discount |-> 2, type |-> "fixed", categories |-> { "pastries" }],
       [id |-> << "L","O","Y","A","L","T","Y","_","R","E","W","A","R","D" >>,
        code |-> "LOYALTY15",
        discount |-> 15, type |-> "percentage", categories |-> { "all" }] >>

\* the elements of sequence s
Range(s) == { s[i] : i \in 1..Len(s) }

\* a loyalty loop that appends without looking at what is already recommended
RECURSIVE AppendLoyaltyAgain(_, _)
AppendLoyaltyAgain(recommended, i) ==
    IF i > Len(OFFERS) THEN recommended
    ELSE IF Contains(OFFERS[i].id, << "L","O","Y","A","L","T","Y" >>)
         THEN AppendLoyaltyAgain(Append(recommended, OFFERS[i]), i + 1)
         ELSE AppendLoyaltyAgain(recommended, i + 1)
\* the "for offer in OFFERS: if ... and offer not in recommended: append" loop
RECURSIVE AppendLoyalty(_, _)
AppendLoyalty(recommended, i) ==
    IF i > Len(OFFERS) THEN recommended
    ELSE IF Contains(OFFERS[i].id, << "L","O","Y","A","L","T","Y" >>)
            /\ OFFERS[i] \notin Range(recommended)
         THEN AppendLoyalty(Append(recommended, OFFERS[i]), i + 1)
         ELSE AppendLoyalty(recommended, i + 1)

\* OffersAgent.get_personalized_offers; weather_context is Null or a string
get_personalized_offers(weather_context) ==
    LET weather_lower == Lower(weather_context.s)
        HotDrink(o) == "hot_drinks" \in o.categories \/ "all" \in o.categories
        ColdDrink(o) == "cold_drinks" \in o.categories \/ "all" \in o.categories
        by_weather ==
            IF weather_context.t # "str" \/ weather_context.s = << >>
            THEN << >>
            ELSE IF Contains(weather_lower, << "c","o","l","d" >>)
                    \/ Contains(weather_lower, << "w","i","n","t","e","r" >>)
            THEN SelectSeq(OFFERS, HotDrink)
            ELSE IF Contains(weather_lower, << "h","o","t" >>)
                    \/ Contains(weather_lower, << "s","u","m","m","e","r" >>)
            THEN SelectSeq(OFFERS, ColdDrink)
            ELSE << >>
        with_loyalty == AppendLoyalty(by_weather, 1)
    IN  IF with_loyalty = << >> THEN SubSeq(OFFERS, 1, 3) ELSE with_loyalty

(***************************************************************************)
(* Requests.                                                               *)
(***************************************************************************)
Downtown == [latitude |-> 4071, longitude |-> -7401]
\* about 4.4 km north of the downtown store
NearDowntown == [latitude |-> 4075, longitude |-> -7401]
Nowhere == [latitude |-> 0, longitude |-> 0]
\* the ChatRequests handled: location, and customer_profile.weather_context
\* (Null when there is no profile or no weather)
\* "call 555-123-4567", "mail bob@x.co", "hot tea", "hello"
PhoneMessage == << "c","a","l","l"," ","5","5","5","-","1","2","3","-","4","5","6","7" >>
EmailMessage == << "m","a","i","l"," ","b","o","b","@","x",".","c","o" >>
PlainMessage == << "h","o","t"," ","t","e","a" >>
Requests ==
    { [location |-> Downtown, weather |-> Str(<< "c","o","l","d" >>),
       message |-> PhoneMessage],
      [location |-> NearDowntown, weather |-> Null, message |-> EmailMessage],
      [location |-> NearDowntown, weather |-> Str(<< "H","o","t" >>),
       message |-> PlainMessage],
      [location |-> Nowhere, weather |-> Str(<< "r","a","i","n","y" >>),
       message |-> << "h","e","l","l","o" >>] }

(***************************************************************************)
(* Synthesizer._route_to_agents                                            *)
(***************************************************************************)
DEFAULT_MAX_DISTANCE_KM == 5
RECOMMENDATION_MAX_DISTANCE_KM == 3

\* the product entity taken without a default
ProductOfEntity(ir) == ir.entities.product
\* the product looked up: entities.get("product", "item")
ProductOf(ir) == Get(ir.entities.product, Str(<< "i","t","e","m" >>))

\* the agent calls _route_to_agents makes, in order, up to one that raises
route_calls(ir, req) ==
    LET nearby == find_nearby_stores(req.location, DEFAULT_MAX_DISTANCE_KM)
    IN  CASE ir.intent = "store_hours" ->
               << Event("agent:find_nearby_stores", "ok") >>
               \o (IF nearby # << >> THEN << Event("agent:get_store_hours", "ok") >> ELSE << >>)
          [] ir.intent = "stock_check" ->
               << Event("agent:find_nearby_stores", "ok") >>
               \o (IF ProductOf(ir).t # "str"
                   THEN (IF nearby # << >>
                         THEN << Event("agent:check_availability", "error") >>
                         ELSE << >>)
                   ELSE [i \in 1..Len(nearby) |->
                           Event("agent:check_availability", "ok")])
          [] ir.intent = "order_status" ->
               IF Truthy(ir.entities.order_id)
               THEN << Event("agent:get_order_status",
                             IF get_order_status_raises(ir.entities.order_id)
                             THEN "error" ELSE "ok") >>
               ELSE << >>
          [] ir.intent = "location_recommendation" -> << Event("agent:find_nearby_stores", "ok") >>
          [] ir.intent = "product_recommendation" ->
               << Event("agent:get_personalized_offers", "ok"),
                  Event("agent:find_nearby_stores", "ok") >>
          [] OTHER -> << >>

\* _route_to_agents raises
route_raises(ir, req) ==
    LET nearby == find_nearby_stores(req.location, DEFAULT_MAX_DISTANCE_KM)
    IN  \/ /\ ir.intent = "stock_check"
           /\ \E i \in 1..Len(nearby) :
                 check_availability_raises(nearby[i].store_id, ProductOf(ir))
        \/ /\ ir.intent = "order_status"
           /\ Truthy(ir.entities.order_id)
           /\ get_order_status_raises(ir.entities.order_id)

\* the data bag _route_to_agents returns when it does not raise
route_to_agents(ir, req) ==
    LET base == [intent |-> ir.intent, emotion |-> ir.emotion,
                 entities |-> ir.entities]
        nearby == find_nearby_stores(req.location, DEFAULT_MAX_DISTANCE_KM)
    IN  CASE ir.intent = "store_hours" ->
               IF nearby # << >>
               THEN base @@ [store_hours |-> get_store_hours(nearby[1].store_id),
                             nearby_stores |-> nearby]
               ELSE base
          [] ir.intent = "stock_check" ->
               base @@ [inventory |->
                          [i \in 1..Len(nearby) |->
                             check_availability(nearby[i].store_id, ProductOf(ir))]]
          [] ir.intent = "order_status" ->
               IF Truthy(ir.entities.order_id)
               THEN base @@ [order |-> get_order_status(ir.entities.order_id)]
               ELSE base
          [] ir.intent = "location_recommendation" ->
               base @@ [nearby_stores |-> nearby]
          [] ir.intent = "product_recommendation" ->
               base @@ [offers |-> get_personalized_offers(req.weather),
                        nearby_stores |->
                          find_nearby_stores(req.location,
                                             RECOMMENDATION_MAX_DISTANCE_KM)]
          [] OTHER -> base

(***************************************************************************)
(* RAG pipeline: the stages of RAGService.process_query.  A document is    *)
(* its doc_id; the corpus is the list RAGService.documents.                *)
(***************************************************************************)
TOP_K == 5
CONTEXT_DOCS == 3
FACTS_SENT == 5

\* what llm_client.query may give: it raises, returns no content, or text
Replies(texts) ==
    { [kind |-> "error"], [kind |-> "none"] }
    \cup { [kind |-> "text", text |-> t] : t \in texts }

REWRITTEN_TEXT == "rewritten query"
GENERATED_TEXT == "generated answer"
NO_DOCUMENTS_ANSWER == "I couldn't find relevant information to answer that query."
UNABLE_ANSWER == "I'm unable to answer that right now. Please try again."
ESCALATION_ANSWER == "I'm not confident about that answer. Let me connect you with a specialist who can help better."
PIPELINE_ERROR_ANSWER == "An error occurred processing your query."

\* a rewrite whose failure is not caught: no query is left to retrieve with
rewrite_query_uncaught(query, reply) ==
    IF reply.kind = "text" THEN reply.text ELSE None
\* RAGService._rewrite_query
rewrite_query(query, reply) ==
    CASE reply.kind = "error" -> query
      [] reply.kind = "none" -> None
      [] OTHER -> reply.text

\* s reversed
Reverse(s) == [i \in 1..Len(s) |-> s[Len(s) + 1 - i]]
\* the last k elements of s
LastK(s, k) == SubSeq(s, IF Len(s) > k THEN Len(s) - k + 1 ELSE 1, Len(s))

\* VectorStore.search: np.argsort(similarities)[-top_k:][::-1]
search(docs, similarities, top_k) ==
    LET pairs == [i \in 1..Len(docs) |-> << similarities[i], docs[i] >>]
        order == Reverse(LastK(SortedByKey(pairs), top_k))
    IN  [i \in 1..Len(order) |-> order[i][2]]

\* RAGService._retrieve_documents; the vector search raises or scores
retrieve_documents(docs, outcome, top_k) ==
    IF docs = << >> THEN << >>
    ELSE IF outcome.kind = "raise" THEN << >>
    ELSE search(docs, outcome.similarities, top_k)

\* the score extraction of _rerank_documents, on the words of response.split()
Digits == << "0","1","2","3","4","5","6","7","8","9" >>
IsDigit(c) == \E i \in 1..Len(Digits) : Digits[i] = c
DigitValue(c) == (CHOOSE i \in 1..Len(Digits) : Digits[i] = c) - 1
NotDot(c) == c # "."
\* w.replace('.', '').isdigit()
IsNumberWord(w) ==
    LET stripped == SelectSeq(w, NotDot)
    IN  stripped # << >> /\ \A i \in 1..Len(stripped) : IsDigit(stripped[i])
\* the value of a string of digits
RECURSIVE DigitsValue(_)
DigitsValue(ds) ==
    IF ds = << >> THEN 0
    ELSE 10 * DigitsValue(SubSeq(ds, 1, Len(ds) - 1)) + DigitValue(ds[Len(ds)])
\* float(w) raises on a number word: more than one dot
FloatWordRaises(w) == Cardinality({ i \in 1..Len(w) : w[i] = "." }) > 1
\* float(w) in hundredths, for a number word with at most two decimals
FloatWord(w) ==
    IF \A i \in 1..Len(w) : w[i] # "." THEN 100 * DigitsValue(w)
    ELSE LET dot == CHOOSE i \in 1..Len(w) : w[i] = "."
             whole == SubSeq(w, 1, dot - 1)
             frac == SubSeq(w, dot + 1, Len(w))
             tenths == IF Len(frac) >= 1 THEN DigitValue(frac[1]) ELSE 0
             hundredths == IF Len(frac) >= 2 THEN DigitValue(frac[2]) ELSE 0
         IN  100 * DigitsValue(whole) + 10 * tenths + hundredths
Max(a, b) == IF a >= b THEN a ELSE b
DEFAULT_SCORE == 50
\* the score given to one scoring reply that did not raise
parse_score(reply) ==
    IF reply.kind = "none" THEN DEFAULT_SCORE
    ELSE LET numbers == SelectSeq(reply.text, IsNumberWord)
         IN  IF numbers = << >> \/ FloatWordRaises(numbers[1])
             THEN DEFAULT_SCORE
             ELSE Min(100, Max(0, FloatWord(numbers[1])))

\* the scoring replies: "0.9", "Score: 0.2", "relevant", "5"
ScoreTexts ==
    { << << "0",".","9" >> >>,
      << << "S","c","o","r","e",":" >>, << "0",".","2" >> >>,
      << << "r","e","l","e","v","a","n","t" >> >>,
      << << "5" >> >> }
ScoreReplies == Replies(ScoreTexts)

\* the scoring calls _rerank_documents issues before it returns
\* a rerank that asks for the score of the first document only
scoring_calls_first_document(docs, replies) == 1
scoring_calls(docs, replies) ==
    IF \E i \in 1..Len(docs) : replies[i].kind = "error"
    THEN CHOOSE i \in 1..Len(docs) :
           /\ replies[i].kind = "error"
           /\ \A j \in 1..(i - 1) : replies[j].kind # "error"
    ELSE Len(docs)

\* scored_docs when _rerank_documents ends: a pair << document, score >> for
\* every scoring call that returned
scored_documents(docs, replies) ==
    LET returned_calls == IF \E i \in 1..Len(docs) : replies[i].kind = "error"
                          THEN scoring_calls(docs, replies) - 1
                          ELSE Len(docs)
    IN  [i \in 1..returned_calls |-> << docs[i], parse_score(replies[i]) >>]
\* a rerank that sorts ascending and reverses: equal scores change places
rerank_documents_reversed(docs, replies) ==
    IF docs = << >> THEN << >>
    ELSE IF \E i \in 1..Len(docs) : replies[i].kind = "error" THEN docs
    ELSE LET by_score == [i \in 1..Len(docs) |->
                            << parse_score(replies[i]), docs[i] >>]
             sorted == Reverse(SortedByKey(by_score))
         IN  [i \in 1..Len(sorted) |-> sorted[i][2]]
\* a rerank that keeps only the documents scored before the call that raised
rerank_documents_partial(docs, replies) ==
    IF docs = << >> THEN << >>
    ELSE IF \E i \in 1..Len(docs) : replies[i].kind = "error"
         THEN SubSeq(docs, 1, scoring_calls(docs, replies) - 1)
    ELSE LET by_score == [i \in 1..Len(docs) |->
                            << 0 - parse_score(replies[i]), docs[i] >>]
             sorted == SortedByKey(by_score)
         IN  [i \in 1..Len(sorted) |-> sorted[i][2]]
\* RAGService._rerank_documents; replies[i] is the reply to document i's call
rerank_documents(docs, replies) ==
    IF docs = << >> THEN << >>
    ELSE IF \E i \in 1..Len(docs) : replies[i].kind = "error" THEN docs
    ELSE LET by_score == [i \in 1..Len(docs) |->
                            << 0 - parse_score(replies[i]), docs[i] >>]
             sorted == SortedByKey(by_score)
         IN  [i \in 1..Len(sorted) |-> sorted[i][2]]

\* RAGService._compress_context: the documents the context is built from
compress_context(docs) ==
    IF docs = << >> THEN [kind |-> "placeholder", docs |-> << >>]
    ELSE [kind |-> "summary", docs |-> SubSeq(docs, 1, Min(CONTEXT_DOCS, Len(docs)))]

\* RAGService._generate_answer
generate_answer(reply) ==
    CASE reply.kind = "error" -> UNABLE_ANSWER
      [] reply.kind = "none" -> None
      [] OTHER -> reply.text

\* the facts _check_hallucination sends: facts[:5], four facts per document
RECURSIVE AllFacts(_)
AllFacts(docs) ==
    IF docs = << >> THEN << >>
    ELSE << << Head(docs), "store" >>, << Head(docs), "emotion" >>,
            << Head(docs), "weather" >>, << Head(docs), "need" >> >>
         \o AllFacts(Tail(docs))
check_facts(docs) ==
    SubSeq(AllFacts(docs), 1, Min(FACTS_SENT, Len(AllFacts(docs))))

\* the validate replies: "Yes", "NO", "Known"
ValidateTexts ==
    { << "Y","e","s" >>, << "N","O" >>, << "K","n","o","w","n" >> }
\* RAGService._check_hallucination
check_hallucination(docs, reply) ==
    IF docs = << >> THEN TRUE
    ELSE IF reply.kind \in { "error", "none" } THEN FALSE
    ELSE Contains(Lower(reply.text), << "n","o" >>)

\* the confidence without its cap
unflagged_confidence_uncapped(n) == 60 + n * 10
\* the confidence of an answer that was not flagged
unflagged_confidence(n) == Min(95, 60 + n * 10)
FLAGGED_CONFIDENCE == 40
NO_DOCUMENTS_CONFIDENCE == 30

\* d.get(k, default) on a dictionary
GetKey(d, k, default) == IF k \in DOMAIN d THEN d[k] ELSE default

\* a no-documents result that reports a default confidence without escalating
no_documents_result_silent ==
    [ answer |-> NO_DOCUMENTS_ANSWER, confidence |-> 50,
      source_count |-> 0, requires_escalation |-> FALSE ]
\* process_query: the result when retrieval returned nothing
no_documents_result ==
    [ answer |-> NO_DOCUMENTS_ANSWER, confidence |-> NO_DOCUMENTS_CONFIDENCE,
      source_count |-> 0, requires_escalation |-> TRUE ]
\* an error payload without an answer and without the escalation flag
pipeline_error_result_bare == [ confidence |-> 0, source_count |-> 0 ]
\* process_query: the result of the outer except branch
pipeline_error_result ==
    [ answer |-> PIPELINE_ERROR_ANSWER, confidence |-> 0,
      source_count |-> 0, requires_escalation |-> TRUE ]
\* a result that escalates a flagged answer but still returns its text
pipeline_result_keeps_answer(ans, docs, rewr, flagged) ==
    [ answer |-> ans,
      confidence |-> IF flagged THEN FLAGGED_CONFIDENCE
                     ELSE unflagged_confidence(Len(docs)),
      source_count |-> Len(docs),
      rewritten_query |-> rewr,
      requires_escalation |-> flagged,
      sources |-> SubSeq(docs, 1, Min(CONTEXT_DOCS, Len(docs))) ]
\* process_query: the result after the validate stage
pipeline_result(ans, docs, rewr, flagged) ==
    [ answer |-> IF flagged THEN ESCALATION_ANSWER ELSE ans,
      confidence |-> IF flagged THEN FLAGGED_CONFIDENCE
                     ELSE unflagged_confidence(Len(docs)),
      source_count |-> Len(docs),
      rewritten_query |-> rewr,
      requires_escalation |-> flagged,
      sources |-> SubSeq(docs, 1, Min(CONTEXT_DOCS, Len(docs))) ]

(***************************************************************************)
(* PII gate: pii_masker.mask_text.  A text is a sequence of characters; a  *)
(* regular expression is a list of alternatives tried in order, each a     *)
(* list of atoms: a word boundary, or a character class repeated greedily. *)
(***************************************************************************)
Letters == Range(UpperCase) \cup Range(LowerCase)
DigitChars == Range(Digits)
\* \w
WordChars == Letters \cup DigitChars \cup { "_" }
\* [-.\s]: the whitespace of the texts is the space
PhoneSeparators == { "-", ".", " " }
\* [-\s]
CardSeparators == { "-", " " }

\* \b
Boundary == [k |-> "b"]
\* a class repeated from min to max times; max < 0 stands for no upper limit
Class(cls, min, max) == [k |-> "c", cls |-> cls, min |-> min, max |-> max]
\* x?
Optional(cls) == Class(cls, 0, 1)

\* \b[A-Za-z0-9._%+-]+@[A-Za-z0-9.-]+\.[A-Z|a-z]{2,}\b
EMAIL_PATTERN ==
    << << Boundary,
          Class(Letters \cup DigitChars \cup { ".", "_", "%", "+", "-" }, 1, -1),
          Class({ "@" }, 1, 1),
          Class(Letters \cup DigitChars \cup { ".", "-" }, 1, -1),
          Class({ "." }, 1, 1),
          Class(Letters \cup { "|" }, 2, -1),
          Boundary >> >>
\* \(?(?:\d{3})\)?[-.\s]?(?:\d{3})[-.\s]?(?:\d{4})\b
PhoneNumber ==
    << Optional({ "(" }), Class(DigitChars, 3, 3), Optional({ ")" }),
       Optional(PhoneSeparators), Class(DigitChars, 3, 3),
       Optional(PhoneSeparators), Class(DigitChars, 4, 4), Boundary >>
\* \b(?:\+?1[-.\s]?)? followed by the number: with the country prefix first,
\* then without it
PHONE_PATTERN ==
    << << Boundary, Optional({ "+" }), Class({ "1" }, 1, 1),
          Optional(PhoneSeparators) >> \o PhoneNumber,
       << Boundary >> \o PhoneNumber >>
\* \b(?:\d{3}[-]?\d{2}[-]?\d{4})\b
SSN_PATTERN ==
    << << Boundary, Class(DigitChars, 3, 3), Optional({ "-" }),
          Class(DigitChars, 2, 2), Optional({ "-" }),
          Class(DigitChars, 4, 4), Boundary >> >>
\* \b(?:\d{4}[-\s]?){3}\d{4}\b
CREDIT_CARD_PATTERN ==
    << << Boundary,
          Class(DigitChars, 4, 4), Optional(CardSeparators),
          Class(DigitChars, 4, 4), Optional(CardSeparators),
          Class(DigitChars, 4, 4), Optional(CardSeparators),
          Class(DigitChars, 4, 4), Boundary >> >>

\* the character before position pos and the one at pos: exactly one is \w
AtBoundary(text, pos) ==
    LET IsWord(i) == i \in 1..Len(text) /\ text[i] \in WordChars
    IN  IsWord(pos - 1) # IsWord(pos)
\* how many characters from position pos on are in cls
RunLength(text, pos, cls) ==
    CHOOSE n \in 0..(Len(text) + 1 - pos) :
        /\ \A j \in 0..(n - 1) : text[pos + j] \in cls
        /\ pos + n <= Len(text) => text[pos + n] \notin cls
\* the largest element of a non-empty set of numbers
Largest(S) == CHOOSE n \in S : \A m \in S : m <= n
\* the position after the match of atoms[k..] that starts at pos, as the
\* backtracking matcher finds it (the longest repetition first); 0: no match
RECURSIVE MatchEnd(_, _, _, _)
MatchEnd(atoms, k, text, pos) ==
    IF k > Len(atoms) THEN pos
    ELSE IF atoms[k].k = "b"
         THEN IF AtBoundary(text, pos) THEN MatchEnd(atoms, k + 1, text, pos) ELSE 0
    ELSE LET run == RunLength(text, pos, atoms[k].cls)
             most == IF atoms[k].max < 0 THEN run ELSE Min(run, atoms[k].max)
             fits == { n \in atoms[k].min..most :
                         MatchEnd(atoms, k + 1, text, pos + n) # 0 }
         IN  IF fits = { } THEN 0
             ELSE MatchEnd(atoms, k + 1, text, pos + Largest(fits))
\* the position after the match of the pattern at pos: the first alternative
\* that matches
MatchAt(pattern, text, pos) ==
    LET matching == { a \in 1..Len(pattern) : MatchEnd(pattern[a], 1, text, pos) # 0 }
    IN  IF matching = { } THEN 0
        ELSE MatchEnd(pattern[CHOOSE a \in matching : \A b \in matching : a <= b],
                      1, text, pos)
\* re.findall(pattern, text), scanning from position pos
RECURSIVE FindAll(_, _, _)
FindAll(pattern, text, pos) ==
    IF pos > Len(text) THEN << >>
    ELSE LET end == CHOOSE e \in { MatchAt(pattern, text, pos) } : TRUE
         IN  IF end = 0 THEN FindAll(pattern, text, pos + 1)
             ELSE << SubSeq(text, pos, end - 1) >> \o FindAll(pattern, text, end)

\* text.replace(old, new): every occurrence, from the left, without overlap
RECURSIVE Replace(_, _, _)
Replace(text, old, new) ==
    IF Len(text) < Len(old) THEN text
    ELSE IF SubSeq(text, 1, Len(old)) = old
         THEN new \o Replace(SubSeq(text, Len(old) + 1, Len(text)), old, new)
         ELSE << Head(text) >> \o Replace(Tail(text), old, new)

\* n asterisks
Stars(n) == [i \in 1..n |-> "*"]
\* s[-4:]
LastFour(s) == SubSeq(s, IF Len(s) > 4 THEN Len(s) - 3 ELSE 1, Len(s))
\* re.sub(r'\D', '', s)
DigitsOnly(s) == SelectSeq(s, IsDigit)

\* PIIMasker.mask_email, for an address with one "@"
mask_email(email) ==
    LET at == CHOOSE i \in 1..Len(email) : email[i] = "@"
        name == SubSeq(email, 1, at - 1)
        domain == SubSeq(email, at + 1, Len(email))
        masked_name == IF Len(name) > 2
                       THEN << name[1] >> \o Stars(Len(name) - 2) \o << name[Len(name)] >>
                       ELSE << "*" >>
    IN  masked_name \o << "@" >> \o domain
\* PIIMasker.mask_phone
mask_phone(phone) ==
    IF Len(DigitsOnly(phone)) >= 4
    THEN << "*","*","*","-","*","*","*","-" >> \o LastFour(DigitsOnly(phone))
    ELSE << "[","P","H","O","N","E","]" >>
\* PIIMasker.mask_ssn
mask_ssn(ssn) == << "*","*","*","-","*","*","-" >> \o LastFour(ssn)
\* PIIMasker.mask_credit_card
mask_credit_card(cc) ==
    IF Len(DigitsOnly(cc)) >= 4
    THEN << "*","*","*","*"," ","*","*","*","*"," ","*","*","*","*"," " >>
         \o LastFour(DigitsOnly(cc))
    ELSE << "[","C","A","R","D","]" >>

\* the entries of pii_found for the matches of one kind
Found(originals, kind) ==
    [i \in 1..Len(originals) |->
       [original |-> originals[i],
        masked |-> CASE kind = "emails" -> mask_email(originals[i])
                     [] kind = "phones" -> mask_phone(originals[i])
                     [] kind = "ssns" -> mask_ssn(originals[i])
                     [] OTHER -> mask_credit_card(originals[i])]]
\* "for x in found: masked_text = masked_text.replace(x, mask(x))"
RECURSIVE ReplaceEach(_, _)
ReplaceEach(text, found) ==
    IF found = << >> THEN text
    ELSE ReplaceEach(Replace(text, Head(found).original, Head(found).masked),
                     Tail(found))
\* PIIMasker.mask_text: the masked text and what was found, by kind
mask_text(text) ==
    LET found == [emails |-> Found(FindAll(EMAIL_PATTERN, text, 1), "emails"),
                  phones |-> Found(FindAll(PHONE_PATTERN, text, 1), "phones"),
                  ssns |-> Found(FindAll(SSN_PATTERN, text, 1), "ssns"),
                  credit_cards |->
                      Found(FindAll(CREDIT_CARD_PATTERN, text, 1), "credit_cards")]
        kinds == { k \in DOMAIN found : found[k] # << >> }
    IN  [ masked_text |->
              ReplaceEach(ReplaceEach(ReplaceEach(ReplaceEach(text,
                  found.emails), found.phones), found.ssns), found.credit_cards),
          pii_found |-> [k \in kinds |-> found[k]] ]

(***************************************************************************)
(* ChatResponse construction.                                              *)
(***************************************************************************)
NoData == [kind |-> "none"]
APOLOGY_MESSAGE == "I'm having trouble processing your request. Please try again."
RAG_FAILURE_MESSAGE == "I encountered an issue processing your request. Let me connect you with a specialist."
ERROR_MESSAGE == "I encountered an error processing your request. Please try again or contact support."

\* how the phrasing ended: the call raised ("error"), it returned no content
\* and the ChatResponse validation raised ("empty"), or it returned text
PhrasingOutcome(reply) ==
    CASE reply.kind = "error" -> "error"
      [] reply.kind = "none" -> "empty"
      [] OTHER -> "ok"
\* an except branch that keeps the classifier's confidence and does not
\* escalate
generate_response_unescalated(ir, bag, reply) ==
    IF reply.kind = "text"
    THEN [ message |-> reply.text, intent |-> ir.intent, emotion |-> ir.emotion,
           confidence |-> ir.confidence, mode |-> "tooling", data |-> bag,
           requires_escalation |-> FALSE ]
    ELSE [ message |-> APOLOGY_MESSAGE, intent |-> ir.intent,
           emotion |-> ir.emotion, confidence |-> ir.confidence,
           mode |-> "tooling", data |-> [kind |-> "none"],
           requires_escalation |-> FALSE ]
\* Synthesizer._generate_response; a reply without content fails the
\* ChatResponse validation (message: str) inside the try block
generate_response(ir, bag, reply) ==
    IF reply.kind = "text"
    THEN [ message |-> reply.text, intent |-> ir.intent, emotion |-> ir.emotion,
           confidence |-> ir.confidence, mode |-> "tooling", data |-> bag,
           requires_escalation |-> FALSE ]
    ELSE [ message |-> APOLOGY_MESSAGE, intent |-> ir.intent,
           emotion |-> ir.emotion, confidence |-> 0, mode |-> "tooling",
           data |-> NoData, requires_escalation |-> TRUE ]

\* a wrapper that reports the default confidence and never escalates
process_rag_mode_defaults(result) ==
    [ message |-> GetKey(result, "answer", "Unable to process your query."),
      intent |-> None, emotion |-> None, confidence |-> 50, mode |-> "rag",
      data |-> [ rewritten_query |-> GetKey(result, "rewritten_query", None),
                 sources |-> GetKey(result, "sources", << >>),
                 source_count |-> GetKey(result, "source_count", 0) ],
      requires_escalation |-> FALSE ]
\* Synthesizer._process_rag_mode, given the result of process_query
process_rag_mode(result) ==
    IF GetKey(result, "answer", "Unable to process your query.") = None
    THEN [ message |-> RAG_FAILURE_MESSAGE, intent |-> None, emotion |-> None,
           confidence |-> 0, mode |-> "rag", data |-> NoData,
           requires_escalation |-> TRUE ]
    ELSE [ message |-> GetKey(result, "answer", "Unable to process your query."),
           intent |-> None, emotion |-> None,
           confidence |-> GetKey(result, "confidence", 50),
           mode |-> "rag",
           data |-> [ rewritten_query |-> GetKey(result, "rewritten_query", None),
                      sources |-> GetKey(result, "sources", << >>),
                      source_count |-> GetKey(result, "source_count", 0) ],
           requires_escalation |-> GetKey(result, "requires_escalation", FALSE) ]

\* an error response that keeps a default confidence and does not escalate
create_error_response_silent ==
    [ message |-> ERROR_MESSAGE, intent |-> None, emotion |-> None,
      confidence |-> 50, mode |-> "tooling", data |-> NoData,
      requires_escalation |-> FALSE ]
\* Synthesizer._create_error_response
create_error_response ==
    [ message |-> ERROR_MESSAGE, intent |-> None, emotion |-> None,
      confidence |-> 0, mode |-> "tooling", data |-> NoData,
      requires_escalation |-> TRUE ]

(***************************************************************************)
(* The request, step by step.                                              *)
(***************************************************************************)
Unset == [t |-> "unset"]
\* a text local of process_query that is not assigned yet
NoText == "unset"
MASKED_MESSAGE == "masked message"

ragLocals == << rewritten, documents, context, answer, is_hallucinating, rag_result >>
gateLocals == << masked_message, pii_found >>
\* masked_message before mask_text has run
NotMasked == << >>
\* a pii_found without entries
NothingFound == [k \in { } |-> << >>]
\* a prompt that embeds no message text
NoMessage == << >>
\* one entry of prompts: the call and the message text its prompt embeds
Prompt(op, message) == [op |-> op, message |-> message]

\* a request arrives: nothing has run yet
Fresh(req) ==
    /\ pc = "start"
    /\ request = req
    /\ intent_result = Unset
    /\ agent_data = Unset
    /\ trace = << >>
    /\ rewritten = NoText
    /\ documents = << >>
    /\ context = Unset
    /\ answer = NoText
    /\ is_hallucinating = FALSE
    /\ rag_result = Unset
    /\ response = Unset
    /\ returned = 0
    /\ masked_message = NotMasked
    /\ pii_found = NothingFound
    /\ prompts = << >>
    /\ scored_docs = << >>

\* the corpus with n documents
Corpus(n) == [i \in 1..n |-> i]

Init ==
    /\ corpus \in { Corpus(n) : n \in 0..MaxCorpus }
    /\ \E req \in Requests : Fresh(req)

\* pii_masker.mask_text(request.message), for the messages of Requests
MaskedRequests == [m \in { r.message : r \in Requests } |-> mask_text(m)]

\* process_request, step 1: pii_masker.mask_text
MaskText ==
    /\ pc = "start"
    /\ trace' = Append(trace, Event("mask_text", "ok"))
    /\ masked_message' = MaskedRequests[request.message].masked_text
    /\ pii_found' = MaskedRequests[request.message].pii_found
    /\ pc' = "masked"
    /\ UNCHANGED << corpus, request, intent_result, agent_data,
                    ragLocals, response, returned >>
    /\ UNCHANGED << prompts, scored_docs >>

\* process_request, step 2: IntentAgent.detect_intent
DetectIntent ==
    /\ pc = "masked"
    /\ \E reply \in ClassifierReplies :
          /\ intent_result' = detect_intent(reply)
          /\ trace' = Append(trace, Event("llm:classify", classify_outcome(reply)))
    /\ pc' = "classified"
    /\ UNCHANGED << corpus, request, agent_data, ragLocals,
                    response, returned >>
    /\ prompts' = Append(prompts, Prompt("llm:classify", masked_message))
    /\ UNCHANGED << gateLocals, scored_docs >>

\* the router's test written with <= : a judgment at the threshold goes to RAG
routes_to_rag_at_threshold(ir) ==
    ir.confidence # NaN /\ ir.confidence <= CONFIDENCE_THRESHOLD
\* the router's test inverted: confident judgments go to RAG
routes_to_rag_inverted(ir) == FloatGe(ir.confidence, CONFIDENCE_THRESHOLD)
\* the router's test: intent_result.confidence < settings.CONFIDENCE_THRESHOLD
routes_to_rag(ir) == FloatLt(ir.confidence, CONFIDENCE_THRESHOLD)

\* process_request: the threshold comparison
CheckConfidence ==
    /\ pc = "classified"
    /\ trace' = Append(trace, Event("compare", IF routes_to_rag(intent_result) THEN "rag" ELSE "tooling"))
    /\ pc' = IF routes_to_rag(intent_result) THEN "rag" ELSE "tooling"
    /\ UNCHANGED << corpus, request, intent_result, agent_data,
                    ragLocals, response, returned >>
    /\ UNCHANGED << gateLocals, prompts, scored_docs >>

\* process_request, step 3: Synthesizer._route_to_agents
RouteToAgents ==
    /\ pc = "tooling"
    /\ trace' = trace \o route_calls(intent_result, request)
    /\ IF route_raises(intent_result, request)
       THEN /\ pc' = "error"
            /\ UNCHANGED agent_data
       ELSE /\ pc' = "generate"
            /\ agent_data' = route_to_agents(intent_result, request)
    /\ UNCHANGED << corpus, request, intent_result, ragLocals,
                    response, returned >>
    /\ UNCHANGED << gateLocals, prompts, scored_docs >>

\* process_request, step 4: Synthesizer._generate_response
GenerateResponse ==
    /\ pc = "generate"
    /\ \E reply \in Replies({ GENERATED_TEXT }) :
          /\ response' = generate_response(intent_result, agent_data, reply)
          /\ trace' = Append(trace, Event("llm:synthesize", PhrasingOutcome(reply)))
    /\ returned' = returned + 1
    /\ pc' = "done"
    /\ UNCHANGED << corpus, request, intent_result, agent_data,
                    ragLocals >>
    /\ prompts' = Append(prompts, Prompt("llm:synthesize", request.message))
    /\ UNCHANGED << gateLocals, scored_docs >>

\* process_request: the except branch
CreateErrorResponse ==
    /\ pc = "error"
    /\ response' = create_error_response
    /\ returned' = returned + 1
    /\ pc' = "done"
    /\ UNCHANGED << corpus, request, intent_result, agent_data,
                    trace, ragLocals >>
    /\ UNCHANGED << gateLocals, prompts, scored_docs >>

\* process_query, step 1: _rewrite_query, then the log line that slices it
RewriteQuery ==
    /\ pc = "rag"
    /\ \E reply \in Replies({ REWRITTEN_TEXT }) :
          /\ rewritten' = rewrite_query(MASKED_MESSAGE, reply)
          /\ trace' = Append(trace, Event("llm:rewrite", CallOutcome(reply)))
    /\ pc' = IF rewritten' = None THEN "rag_error" ELSE "retrieve"
    /\ UNCHANGED << corpus, request, intent_result, agent_data,
                    documents, context, answer, is_hallucinating, rag_result,
                    response, returned >>
    /\ prompts' = Append(prompts, Prompt("llm:rewrite", masked_message))
    /\ UNCHANGED << gateLocals, scored_docs >>

\* the trace entry of _retrieve_documents(rewritten, top_k=5): the query it
\* was called with
RetrieveEvent(query) == [op |-> "retrieve", outcome |-> "ok", query |-> query]

\* what the vector search may do on the corpus
SearchOutcomes ==
    { [kind |-> "raise"] }
    \cup { [kind |-> "scores", similarities |-> f] :
           f \in [1..Len(corpus) -> 0..MaxSim] }

\* process_query, step 2: _retrieve_documents
RetrieveDocuments ==
    /\ pc = "retrieve"
    /\ \E outcome \in SearchOutcomes :
          documents' = retrieve_documents(corpus, outcome, TOP_K)
    /\ trace' = Append(trace, RetrieveEvent(rewritten))
    /\ pc' = "retrieved"
    /\ UNCHANGED << corpus, request, intent_result, agent_data,
                    rewritten, context, answer, is_hallucinating, rag_result,
                    response, returned >>
    /\ UNCHANGED << gateLocals, prompts, scored_docs >>

\* process_query: "if not documents" returns the low-confidence result
NoDocuments ==
    /\ pc = "retrieved"
    /\ documents = << >>
    /\ rag_result' = no_documents_result
    /\ pc' = "rag_return"
    /\ UNCHANGED << corpus, request, intent_result, agent_data, trace,
                    rewritten, documents, context, answer, is_hallucinating,
                    response, returned >>
    /\ UNCHANGED << gateLocals, prompts, scored_docs >>

\* process_query, step 3: _rerank_documents
\* a rerank that sorts the loaded documents themselves
corpus_sorted_in_place(docs, reranked) ==
    reranked \o SelectSeq(docs, LAMBDA d : d \notin Range(reranked))
\* RAGService.documents after _rerank_documents: the scores go into the
\* local list scored_docs, which is what is sorted; the loaded documents
\* are read only
corpus_after_rerank(docs, reranked) == docs

RerankDocuments ==
    /\ pc = "retrieved"
    /\ documents # << >>
    /\ \E replies \in [1..Len(documents) -> ScoreReplies] :
          /\ documents' = rerank_documents(documents, replies)
          /\ corpus' = corpus_after_rerank(corpus,
                                           rerank_documents(documents, replies))
          /\ trace' = trace \o [i \in 1..scoring_calls(documents, replies) |->
                                  Event("llm:score", CallOutcome(replies[i]))]
          /\ prompts' = prompts \o [i \in 1..scoring_calls(documents, replies) |->
                                      Prompt("llm:score", masked_message)]
          /\ scored_docs' = scored_documents(documents, replies)
    /\ pc' = "compress"
    /\ UNCHANGED << request, intent_result, agent_data,
                    rewritten, context, answer, is_hallucinating, rag_result,
                    response, returned >>
    /\ UNCHANGED gateLocals

\* process_query, step 4: _compress_context
CompressContext ==
    /\ pc = "compress"
    /\ context' = compress_context(documents)
    /\ pc' = "generate_answer"
    /\ UNCHANGED << corpus, request, intent_result, agent_data, trace,
                    rewritten, documents, answer, is_hallucinating, rag_result,
                    response, returned >>
    /\ scored_docs' = << >>
    /\ UNCHANGED << gateLocals, prompts >>

\* process_query, step 5: _generate_answer
GenerateAnswer ==
    /\ pc = "generate_answer"
    /\ \E reply \in Replies({ GENERATED_TEXT }) :
          /\ answer' = generate_answer(reply)
          /\ trace' = Append(trace, Event("llm:generate", CallOutcome(reply)))
    /\ pc' = "validate"
    /\ UNCHANGED << corpus, request, intent_result, agent_data,
                    rewritten, documents, context, is_hallucinating, rag_result,
                    response, returned >>
    /\ prompts' = Append(prompts, Prompt("llm:generate", masked_message))
    /\ UNCHANGED << gateLocals, scored_docs >>

\* process_query, step 6: _check_hallucination
CheckHallucination ==
    /\ pc = "validate"
    /\ \E reply \in Replies(ValidateTexts) :
          /\ is_hallucinating' = check_hallucination(documents, reply)
          /\ trace' = Append(trace, Event("llm:validate", CallOutcome(reply)))
    /\ pc' = "assemble"
    /\ UNCHANGED << corpus, request, intent_result, agent_data,
                    rewritten, documents, context, answer, rag_result,
                    response, returned >>
    /\ prompts' = Append(prompts, Prompt("llm:validate", NoMessage))
    /\ UNCHANGED << gateLocals, scored_docs >>

\* process_query: the verdict decides answer, confidence and escalation
AssembleResult ==
    /\ pc = "assemble"
    /\ rag_result' = pipeline_result(answer, documents, rewritten, is_hallucinating)
    /\ pc' = "rag_return"
    /\ UNCHANGED << corpus, request, intent_result, agent_data, trace,
                    rewritten, documents, context, answer, is_hallucinating,
                    response, returned >>
    /\ UNCHANGED << gateLocals, prompts, scored_docs >>

\* process_query: the outer except branch
PipelineError ==
    /\ pc = "rag_error"
    /\ rag_result' = pipeline_error_result
    /\ pc' = "rag_return"
    /\ UNCHANGED << corpus, request, intent_result, agent_data, trace,
                    rewritten, documents, context, answer, is_hallucinating,
                    response, returned >>
    /\ UNCHANGED << gateLocals, prompts, scored_docs >>

\* _process_rag_mode wraps the result of process_query into the ChatResponse
ProcessRagMode ==
    /\ pc = "rag_return"
    /\ response' = process_rag_mode(rag_result)
    /\ returned' = returned + 1
    /\ pc' = "done"
    /\ UNCHANGED << corpus, request, intent_result, agent_data, trace,
                    ragLocals >>
    /\ UNCHANGED << gateLocals, prompts, scored_docs >>

\* the next request arrives
NextRequest ==
    /\ pc = "done"
    /\ request' \in Requests
    /\ pc' = "start"
    /\ intent_result' = Unset
    /\ agent_data' = Unset
    /\ trace' = << >>
    /\ rewritten' = NoText
    /\ documents' = << >>
    /\ context' = Unset
    /\ answer' = NoText
    /\ is_hallucinating' = FALSE
    /\ rag_result' = Unset
    /\ response' = Unset
    /\ returned' = 0
    /\ UNCHANGED corpus
    /\ masked_message' = NotMasked
    /\ pii_found' = NothingFound
    /\ prompts' = << >>
    /\ scored_docs' = << >>

Next ==
    \/ MaskText
    \/ DetectIntent
    \/ CheckConfidence
    \/ RouteToAgents
    \/ GenerateResponse
    \/ CreateErrorResponse
    \/ RewriteQuery
    \/ RetrieveDocuments
    \/ NoDocuments
    \/ RerankDocuments
    \/ CompressContext
    \/ GenerateAnswer
    \/ CheckHallucination
    \/ AssembleResult
    \/ PipelineError
    \/ ProcessRagMode
    \/ NextRequest

Spec == Init /\ [][Next]_vars

(***************************************************************************)
(* The RAG path alone, on larger corpora: _process_rag_mode is entered     *)
(* for a request whose classification fell back to the default judgment.   *)
(***************************************************************************)
RagRequest ==
    [location |-> NearDowntown, weather |-> Null, message |-> EmailMessage]
\* the trace of a request when it enters _process_rag_mode
EnteredRag ==
    << Event("mask_text", "ok"), Event("llm:classify", "error"),
       Event("compare", "rag") >>

InitRag ==
    /\ corpus \in { Corpus(n) : n \in 0..MaxDocs }
    /\ pc = "rag"
    /\ request = RagRequest
    /\ intent_result = FallbackIntent
    /\ agent_data = Unset
    /\ trace = EnteredRag
    /\ rewritten = NoText
    /\ documents = << >>
    /\ context = Unset
    /\ answer = NoText
    /\ is_hallucinating = FALSE
    /\ rag_result = Unset
    /\ response = Unset
    /\ returned = 0
    /\ masked_message = MaskedRequests[RagRequest.message].masked_text
    /\ pii_found = MaskedRequests[RagRequest.message].pii_found
    /\ prompts = << Prompt("llm:classify", masked_message) >>
    /\ scored_docs = << >>

\* the next low-confidence request enters _process_rag_mode
NextQuery ==
    /\ pc = "done"
    /\ pc' = "rag"
    /\ trace' = EnteredRag
    /\ rewritten' = NoText
    /\ documents' = << >>
    /\ context' = Unset
    /\ answer' = NoText
    /\ is_hallucinating' = FALSE
    /\ rag_result' = Unset
    /\ response' = Unset
    /\ returned' = 0
    /\ UNCHANGED << corpus, request, intent_result, agent_data >>
    /\ prompts' = << Prompt("llm:classify", masked_message) >>
    /\ scored_docs' = << >>
    /\ UNCHANGED gateLocals

NextRag ==
    \/ RewriteQuery
    \/ RetrieveDocuments
    \/ NoDocuments
    \/ RerankDocuments
    \/ CompressContext
    \/ GenerateAnswer
    \/ CheckHallucination
    \/ AssembleResult
    \/ PipelineError
    \/ ProcessRagMode
    \/ NextQuery

SpecRag == InitRag /\ [][NextRag]_vars

\* the same, where a request that can take a step does take one: every stage
\* is a bounded computation or a call that returns or raises (a timeout is
\* raised by the client)
\* and the corpus has at most MaxCorpus + 1 documents
InitQuery ==
    /\ corpus \in { Corpus(n) : n \in 0..(MaxCorpus + 1) }
    /\ pc = "rag"
    /\ request = RagRequest
    /\ intent_result = FallbackIntent
    /\ agent_data = Unset
    /\ trace = EnteredRag
    /\ rewritten = NoText
    /\ documents = << >>
    /\ context = Unset
    /\ answer = NoText
    /\ is_hallucinating = FALSE
    /\ rag_result = Unset
    /\ response = Unset
    /\ returned = 0
    /\ masked_message = MaskedRequests[RagRequest.message].masked_text
    /\ pii_found = MaskedRequests[RagRequest.message].pii_found
    /\ prompts = << Prompt("llm:classify", masked_message) >>
    /\ scored_docs = << >>

SpecRagFair == InitQuery /\ [][NextRag]_vars /\ WF_vars(NextRag)

(***************************************************************************)
(* StoreAgent.find_nearby_stores alone: it is called twice with the same   *)
(* arguments, for callers around each store and between two stores, and    *)
(* for radii from a negative one to one that holds two stores.             *)
(***************************************************************************)
\* two callers between the Phoenix and the Los Angeles store, each within
\* 400 km of both: the first closer to Los Angeles, the second to Phoenix
BetweenStores ==
    { [latitude |-> 3390, longitude |-> -11550],
      [latitude |-> 3360, longitude |-> -11480] }
\* callers in steps of 0.02 degrees (about 2.2 km) from each store
StoreLocations ==
    { [latitude |-> STORES[k].latitude + 2 * i,
       longitude |-> STORES[k].longitude + 2 * j] :
        k \in 1..Len(STORES), i \in 0..MaxOffset, j \in 0..MaxOffset }
    \cup BetweenStores
\* the values of max_distance_km, in kilometres
Radii == { -1, 0, 3, 5, 400 }
StoreQueries ==
    { [location |-> l, max_distance_km |-> r] : l \in StoreLocations, r \in Radii }

InitStores ==
    /\ pc = "stores"
    /\ request \in StoreQueries
    /\ agent_data = << >>
    /\ trace = << >>
    /\ corpus = << >>
    /\ intent_result = Unset
    /\ rewritten = NoText
    /\ documents = << >>
    /\ context = Unset
    /\ answer = NoText
    /\ is_hallucinating = FALSE
    /\ rag_result = Unset
    /\ response = Unset
    /\ returned = 0
    /\ masked_message = NotMasked
    /\ pii_found = NothingFound
    /\ prompts = << >>
    /\ scored_docs = << >>

\* one call of find_nearby_stores; agent_data holds the lists returned so far
FindNearbyStores ==
    /\ pc = "stores"
    /\ Len(agent_data) < 2
    /\ agent_data' = Append(agent_data,
                            find_nearby_stores(request.location,
                                               request.max_distance_km))
    /\ trace' = Append(trace, Event("agent:find_nearby_stores", "ok"))
    /\ UNCHANGED << pc, corpus, request, intent_result, ragLocals,
                    response, returned >>
    /\ UNCHANGED << gateLocals, prompts, scored_docs >>

\* the next caller and radius
NextStoreQuery ==
    /\ pc = "stores"
    /\ Len(agent_data) = 2
    /\ request' \in StoreQueries
    /\ agent_data' = << >>
    /\ trace' = << >>
    /\ UNCHANGED << pc, corpus, intent_result, ragLocals, response, returned >>
    /\ UNCHANGED << gateLocals, prompts, scored_docs >>

NextStores ==
    \/ FindNearbyStores
    \/ NextStoreQuery

SpecStores == InitStores /\ [][NextStores]_vars

(***************************************************************************)
(* Properties.                                                             *)
(***************************************************************************)
\* the positions of the tooling path and of the RAG path
ToolingPositions == { "tooling", "generate", "error" }
RagPositions ==
    { "rag", "retrieve", "retrieved", "compress", "generate_answer",
      "validate", "assemble", "rag_error", "rag_return" }
\* the classifier has returned its judgment and the router has decided
Routed == pc \in ToolingPositions \cup RagPositions \cup { "done" }
\* the operations recorded in the trace
Ops == { trace[i].op : i \in 1..Len(trace) }
AgentOps ==
    { "agent:find_nearby_stores", "agent:get_store_hours",
      "agent:check_availability", "agent:get_order_status",
      "agent:get_personalized_offers" }
\* the places of operation op in the trace
Places(op) == { i \in 1..Len(trace) : trace[i].op = op }

\* C1: a request whose classifier confidence is below CONFIDENCE_THRESHOLD is
\* handled by the RAG path and answered with mode "rag"; one whose confidence
\* is at or above it is handled by the tooling path and answered with mode
\* "tooling"; this holds for every intent, emotion and entities value.
C1_RoutingByConfidence ==
    Routed =>
      /\ FloatLt(intent_result.confidence, CONFIDENCE_THRESHOLD) =>
           /\ pc \in RagPositions \cup { "done" }
           /\ Ops \cap (AgentOps \cup { "llm:synthesize" }) = { }
           /\ pc = "done" => response.mode = "rag"
      /\ FloatGe(intent_result.confidence, CONFIDENCE_THRESHOLD) =>
           /\ pc \in ToolingPositions \cup { "done" }
           /\ "llm:rewrite" \notin Ops
           /\ pc = "done" => response.mode = "tooling"
\* a request classified store_hours with confidence 0.3, sent from the
\* downtown store, was answered in RAG mode
C1_Witness ==
    /\ pc = "done"
    /\ intent_result.confidence = 30
    /\ intent_result.intent = "store_hours"
    /\ request.location = Downtown
    /\ response.mode = "rag"

\* C2: the threshold comparison runs exactly once per request, no knowledge
\* agent call precedes it, and no knowledge agent is called for a request
\* whose classifier confidence is below the threshold.
C2_CompareOnceBeforeAgents ==
    /\ Cardinality(Places("compare")) <= 1
    /\ pc = "done" => Cardinality(Places("compare")) = 1
    /\ \A i \in 1..Len(trace) :
          trace[i].op \in AgentOps =>
            /\ \E j \in 1..(i - 1) : trace[j].op = "compare"
            /\ ~ FloatLt(intent_result.confidence, CONFIDENCE_THRESHOLD)
\* a request went through the comparison and then called two agents
C2_Witness ==
    /\ pc = "done"
    /\ Places("compare") = { 3 }
    /\ Places("agent:find_nearby_stores") = { 4 }
    /\ Places("agent:get_store_hours") = { 5 }

\* C3: process_request returns exactly one ChatResponse per request and no
\* exception leaves it: a request that has not returned can always take its
\* next step, a returned response is well-formed, and an exception raised by
\* the dispatcher ends in the generic error response with confidence 0.0 and
\* requires_escalation = TRUE.
C3_OneResponseNoException ==
    /\ returned = (IF pc = "done" THEN 1 ELSE 0)
    /\ pc # "done" => ENABLED Next
    /\ pc = "done" =>
         /\ response # Unset
         /\ response.message # None
         /\ response.mode \in { "tooling", "rag" }
         /\ response.requires_escalation \in BOOLEAN
    /\ (pc = "done" /\ "compare" \in Ops /\ ~ routes_to_rag(intent_result)
          /\ route_raises(intent_result, request)) =>
         /\ response.message = ERROR_MESSAGE
         /\ response.confidence = 0
         /\ response.requires_escalation
\* the dispatcher raised on a product that is no string and the request ended
\* in the generic error response
C3_Witness ==
    /\ pc = "done"
    /\ intent_result.intent = "stock_check"
    /\ intent_result.entities.product = Num(4200)
    /\ trace[Len(trace)] = Event("agent:check_availability", "error")
    /\ response = create_error_response

LlmOps ==
    { "llm:classify", "llm:rewrite", "llm:score", "llm:generate",
      "llm:validate", "llm:synthesize" }
\* every generative call of the request so far raised
AllCallsFailed ==
    \A i \in 1..Len(trace) : trace[i].op \in LlmOps => trace[i].outcome = "error"
\* process_query has returned its result
PipelineReturned == pc = "rag_return" \/ (pc = "done" /\ rag_result # Unset)

\* C4: when every generative call made during a request fails, the
\* ChatResponse carries a message and has requires_escalation = TRUE, for an
\* empty and for a non-empty corpus.
C4_EscalatesWhenAllCallsFail ==
    (pc = "done" /\ AllCallsFailed) =>
      /\ response.message # None
      /\ response.requires_escalation

\* C5: when the consistency call of the validate stage raises, the
\* PipelineResult and the ChatResponse built from it have
\* requires_escalation = TRUE.
C5_ValidateFailureEscalates ==
    (PipelineReturned /\ Event("llm:validate", "error") \in Range(trace)) =>
      /\ rag_result.requires_escalation
      /\ pc = "done" => response.requires_escalation

\* C6: when the hallucination check flags the answer, the PipelineResult's
\* answer is the fixed escalation message, its confidence is below the routing
\* threshold and requires_escalation = TRUE; the ChatResponse carries the
\* escalation message, not the generated text.
C6_FlaggedAnswerReplaced ==
    (PipelineReturned /\ is_hallucinating) =>
      /\ rag_result.answer = ESCALATION_ANSWER
      /\ FloatLt(rag_result.confidence, CONFIDENCE_THRESHOLD)
      /\ rag_result.requires_escalation
      /\ pc = "done" =>
           /\ response.message = ESCALATION_ANSWER
           /\ response.message # answer
           /\ response.requires_escalation
\* a generated answer was flagged and the response carries the escalation
\* message instead
C6_Witness ==
    /\ pc = "done"
    /\ is_hallucinating
    /\ answer = GENERATED_TEXT
    /\ response.message = ESCALATION_ANSWER

C8_NoSourcesEscalates ==
    PipelineReturned =>
      /\ corpus = << >> =>
           /\ rag_result.confidence <= 30
           /\ rag_result.requires_escalation
      /\ rag_result.source_count = 0 => rag_result.requires_escalation
\* the pipeline ran on an empty corpus, the rewrite succeeded, and the
\* no-documents result came back
C8_Witness ==
    /\ pc = "rag_return"
    /\ corpus = << >>
    /\ rewritten = REWRITTEN_TEXT
    /\ rag_result.source_count = 0
    /\ rag_result.confidence = 30

\* how the classification of this request ended
ClassifyOutcome == trace[CHOOSE i \in Places("llm:classify") : TRUE].outcome
ClassifyFailures == { "error", "none", "invalid", "array", "mistyped" }

\* C9 as stated: when the classifier's call raises or its output cannot be
\* parsed as the expected structure, the judgment is intent "other" with
\* confidence 0.0 and the request goes to RAG mode.
C9_FailureGivesZeroConfidence ==
    (Routed /\ ClassifyOutcome \in ClassifyFailures) =>
      /\ intent_result.intent = "other"
      /\ intent_result.confidence = 0
      /\ pc \in RagPositions \cup { "done" }
      /\ pc = "done" => response.mode = "rag"
\* C9 amended: when the classifier's call raises, returns no content, returns
\* JSON that is no object, or returns an object that fails float() or the
\* IntentResult validation, the judgment is intent "other" with confidence
\* 0.0; when it returns text that is no JSON, the judgment is intent "other"
\* with the default confidence 0.5; in both cases the request goes to RAG mode.
C9_FailureGivesOtherBelowThreshold ==
    (Routed /\ ClassifyOutcome \in ClassifyFailures) =>
      /\ intent_result.intent = "other"
      /\ intent_result.confidence = (IF ClassifyOutcome = "invalid" THEN 50 ELSE 0)
      /\ pc \in RagPositions \cup { "done" }
      /\ pc = "done" => response.mode = "rag"
\* the classifier returned text that is no JSON and the request was answered
\* in RAG mode with a judgment of confidence 0.5
C9_Witness ==
    /\ pc = "done"
    /\ ClassifyOutcome = "invalid"
    /\ intent_result.confidence = 50
    /\ response.mode = "rag"

\* C10: every IntentResult handed to the router has a confidence in [0, 1]
\* and an intent among the six categories, whatever the classifier returned.
C10_JudgmentInRange ==
    intent_result # Unset =>
      /\ intent_result.confidence \in 0..100
      /\ intent_result.intent \in Intents
\* C10, second part: once produced, the IntentResult of a request is not
\* modified until the request has returned.
IntentResultImmutable ==
    [][(intent_result # Unset /\ pc # "done") => intent_result' = intent_result]_vars

\* _route_to_agents has run for this request
Dispatched ==
    \/ pc \in { "generate", "error" }
    \/ pc = "done" /\ Event("compare", "tooling") \in Range(trace)
\* the places of the knowledge agent calls in the trace
AgentPlaces == { i \in 1..Len(trace) : trace[i].op \in AgentOps }
\* the keys every data bag starts with
BaseKeys == { "intent", "emotion", "entities" }

\* C11: for every intent and every entities mapping, _route_to_agents returns
\* a data bag and never raises: the request never reaches the except branch
\* from the dispatcher and no knowledge agent call ends in an exception.
C11_DispatcherNeverRaises ==
    /\ pc # "error"
    /\ \A i \in AgentPlaces : trace[i].outcome = "ok"
    /\ Dispatched => agent_data # Unset

InRange(location, km) ==
    { i \in 1..Len(STORES) : WithinKm(Distance2(STORES[i], location), km) }
\* a store in range that no store in range is closer than
Nearest(location, km) ==
    CHOOSE i \in InRange(location, km) :
        \A j \in InRange(location, km) :
            Distance2(STORES[i], location) <= Distance2(STORES[j], location)
\* the phrasing call returned text and the tooling response carries it
ToolingSucceeded ==
    /\ pc = "done"
    /\ Dispatched
    /\ agent_data # Unset
    /\ response.requires_escalation = FALSE

\* C13: for intent "store_hours" the dispatcher first finds the stores near
\* the caller and then fetches the hours of the nearest one only: when a store
\* is in range the bag's store_hours entry is the record of the store at
\* minimum distance, and a successful tooling response holds that entry in its
\* data; when no store is in range no hours are fetched.
C13_StoreHoursOfNearest ==
    (Dispatched /\ intent_result.intent = "store_hours") =>
      LET near == InRange(request.location, DEFAULT_MAX_DISTANCE_KM)
          store == STORES[Nearest(request.location, DEFAULT_MAX_DISTANCE_KM)]
      IN  /\ agent_data # Unset
          /\ Cardinality(Places("agent:find_nearby_stores")) = 1
          /\ IF near = { }
             THEN /\ Places("agent:get_store_hours") = { }
                  /\ DOMAIN agent_data = BaseKeys
             ELSE /\ Cardinality(Places("agent:get_store_hours")) = 1
                  /\ \A i \in Places("agent:find_nearby_stores") :
                        \A j \in Places("agent:get_store_hours") : i < j
                  /\ agent_data.store_hours =
                        [ t |-> "hours", store_name |-> store.name,
                          hours |-> store.hours, phone |-> store.phone,
                          address |-> store.address ]
                  /\ agent_data.nearby_stores[1].store_id = store.store_id
                  /\ ToolingSucceeded =>
                        /\ response.mode = "tooling"
                        /\ response.intent = "store_hours"
                        /\ response.data.store_hours = agent_data.store_hours
\* a caller 4.4 km from the downtown store asked for hours and the tooling
\* response holds the downtown store's record
C13_Witness ==
    /\ ToolingSucceeded
    /\ intent_result.intent = "store_hours"
    /\ request.location = NearDowntown
    /\ response.mode = "tooling"
    /\ response.data.store_hours.store_name = "Starbucks Downtown"
    /\ response.data.store_hours.hours = "hours_downtown"

\* product.lower().replace(" ", "_") names a product of the inventory
Stocked(product) ==
    ReplaceChar(Lower(product.s), " ", "_") \in InventoryProducts

C15_OffersAndTighterRadius ==
    (Dispatched /\ intent_result.intent = "product_recommendation") =>
      /\ agent_data # Unset
      /\ DOMAIN agent_data = BaseKeys \cup { "offers", "nearby_stores" }
      /\ Places("agent:get_personalized_offers") # { }
      /\ LET offers == agent_data.offers
             nearby == agent_data.nearby_stores
             tight == InRange(request.location, RECOMMENDATION_MAX_DISTANCE_KM)
             wide == InRange(request.location, DEFAULT_MAX_DISTANCE_KM)
         IN  /\ offers # << >>
             /\ \A i, j \in 1..Len(offers) : i # j => offers[i] # offers[j]
             /\ Range(offers) \subseteq Range(OFFERS)
             /\ Len(nearby) = Cardinality(tight)
             /\ { nearby[i].store_id : i \in 1..Len(nearby) }
                  = { STORES[k].store_id : k \in tight }
             /\ tight \subseteq wide
             /\ (request.weather = Str(<< "c","o","l","d" >>)
                   /\ \E k \in 1..Len(STORES) :
                         Distance2(STORES[k], request.location) = 0) =>
                  /\ Len(offers) >= 2
                  /\ nearby # << >>
\* a caller at the downtown store in cold weather got the hot-drink offers and
\* the downtown store in the tooling response
C15_Witness ==
    /\ ToolingSucceeded
    /\ intent_result.intent = "product_recommendation"
    /\ request.weather = Str(<< "c","o","l","d" >>)
    /\ request.location = Downtown
    /\ Len(response.data.offers) = 3
    /\ response.data.offers[2].code = "HOT10"
    /\ response.data.nearby_stores[1].store_id = "starbucks_downtown"
\* a caller 4.4 km from the downtown store: in range for the default radius,
\* out of range for the recommendation radius
C15_TighterRadiusWitness ==
    /\ Dispatched
    /\ intent_result.intent = "product_recommendation"
    /\ InRange(request.location, DEFAULT_MAX_DISTANCE_KM) # { }
    /\ agent_data # Unset
    /\ agent_data.nearby_stores = << >>

\* the store ids of a list returned by find_nearby_stores
StoreIds(list) == { list[i].store_id : i \in 1..Len(list) }
\* the stores at the caller's own coordinates
StoresAtCaller ==
    { STORES[k].store_id :
        k \in { n \in 1..Len(STORES) : Distance2(STORES[n], request.location) = 0 } }

C18_ToolingResponse ==
    (pc = "done" /\ Dispatched) =>
      /\ response.mode = "tooling"
      /\ agent_data = Unset => Places("llm:synthesize") = { }
      /\ agent_data # Unset =>
           LET last == trace[Len(trace)]
           IN  /\ Places("llm:synthesize") = { Len(trace) }
               /\ response.requires_escalation = (last.outcome # "ok")
               /\ last.outcome = "ok" =>
                    response =
                      [ message |-> GENERATED_TEXT,
                        intent |-> intent_result.intent,
                        emotion |-> intent_result.emotion,
                        confidence |-> intent_result.confidence,
                        mode |-> "tooling", data |-> agent_data,
                        requires_escalation |-> FALSE ]
               /\ last.outcome # "ok" =>
                    /\ response.message = APOLOGY_MESSAGE
                    /\ response.confidence = 0
                    /\ response.intent = intent_result.intent
                    /\ response.emotion = intent_result.emotion
                    /\ response.data = NoData
\* the phrasing call raised after the dispatcher had filled the bag, and the
\* response is the escalated apology
C18_Witness ==
    /\ pc = "done"
    /\ agent_data # Unset
    /\ "store_hours" \in DOMAIN agent_data
    /\ trace[Len(trace)] = Event("llm:synthesize", "error")
    /\ response.message = APOLOGY_MESSAGE
    /\ response.confidence = 0
    /\ response.requires_escalation

\* C19 as stated: in RAG mode the ChatResponse has mode "rag" and its message,
\* confidence and requires_escalation equal the answer, confidence and
\* requires_escalation of the PipelineResult, on every path of the pipeline.
C19_RagResponseForwardsResult ==
    (pc = "done" /\ rag_result # Unset) =>
      /\ response.mode = "rag"
      /\ response.message = rag_result.answer
      /\ response.confidence = rag_result.confidence
      /\ response.requires_escalation = rag_result.requires_escalation
\* C19 amended: in RAG mode the ChatResponse has mode "rag"; when the
\* PipelineResult's answer is text, its answer, confidence and
\* requires_escalation are forwarded unchanged, with rewritten query, sources
\* and source count as data, on the short-circuit, flagged, unflagged and
\* error paths; when the answer is None (the generation returned no content),
\* building the ChatResponse fails and the response is the fixed RAG failure
\* message with confidence 0.0 and requires_escalation = TRUE.
C19_RagResponseForwardsTextAnswer ==
    (pc = "done" /\ rag_result # Unset) =>
      /\ response.mode = "rag"
      /\ response.intent = None
      /\ IF rag_result.answer # None
         THEN /\ response.message = rag_result.answer
              /\ response.confidence = rag_result.confidence
              /\ response.requires_escalation = rag_result.requires_escalation
              /\ response.data.source_count = rag_result.source_count
              /\ rag_result.source_count > 0 =>
                   /\ response.data.sources = rag_result.sources
                   /\ response.data.rewritten_query = rag_result.rewritten_query
              /\ rag_result.source_count = 0 => response.data.sources = << >>
         ELSE /\ answer = None
              /\ ~ is_hallucinating
              /\ ~ rag_result.requires_escalation
              /\ response.message = RAG_FAILURE_MESSAGE
              /\ response.confidence = 0
              /\ response.requires_escalation
\* an unflagged generated answer over one document was forwarded with its
\* confidence 0.7 and without escalation
C19_Witness ==
    /\ pc = "done"
    /\ rag_result # Unset
    /\ rag_result.answer = GENERATED_TEXT
    /\ response.message = GENERATED_TEXT
    /\ response.confidence = 70
    /\ ~ response.requires_escalation
    /\ response.data.sources = << 1 >>
\* the generation returned no content: the PipelineResult is not escalated and
\* the ChatResponse is the escalated RAG failure message
C19_NoContentWitness ==
    /\ pc = "done"
    /\ rag_result # Unset
    /\ rag_result.answer = None
    /\ response.message = RAG_FAILURE_MESSAGE

\* the texts process_query can return as answer
AnswerTexts ==
    { GENERATED_TEXT, UNABLE_ANSWER, ESCALATION_ANSWER, NO_DOCUMENTS_ANSWER,
      PIPELINE_ERROR_ANSWER }
\* a PipelineResult with answer, confidence and requires_escalation; the
\* answer is text unless the generation call returned without content
ValidResult(result) ==
    /\ { "answer", "confidence", "requires_escalation" } \subseteq DOMAIN result
    /\ result.confidence \in 0..100
    /\ result.requires_escalation \in BOOLEAN
    /\ result.answer \in AnswerTexts \cup { None }
    /\ result.answer = None => Event("llm:generate", "ok") \in Range(trace)

\* C20: process_query always terminates and returns a PipelineResult with
\* answer, confidence and requires_escalation, for every combination of
\* raising generative calls over its stages and for an empty corpus: every
\* query that enters the pipeline reaches its return, no stage is left
\* without a next step, and with an empty corpus the result is the
\* no-documents result or the error payload.
C20_PipelineTerminatesValid ==
    /\ [](PipelineReturned => ValidResult(rag_result))
    /\ []((PipelineReturned /\ corpus = << >>) =>
            rag_result \in { no_documents_result, pipeline_error_result })
    /\ []((PipelineReturned /\ AllCallsFailed) => rag_result.answer \in AnswerTexts)
    /\ [](pc \in RagPositions => ENABLED NextRag)
    /\ (pc = "rag") ~> (pc = "rag_return")
\* every generative call of the pipeline raised, over a non-empty corpus, and
\* process_query returned the fallback answer
C20_Witness ==
    /\ pc = "rag_return"
    /\ AllCallsFailed
    /\ Len(documents) >= 2
    /\ Event("llm:rewrite", "error") \in Range(trace)
    /\ Event("llm:score", "error") \in Range(trace)
    /\ Event("llm:generate", "error") \in Range(trace)
    /\ Event("llm:validate", "error") \in Range(trace)
    /\ rag_result.answer = UNABLE_ANSWER

\* the generative calls of the stages after retrieval have all been issued
LaterStagesRan ==
    { "llm:score", "llm:generate", "llm:validate" } \subseteq Ops

C22_RerankFailureKeepsOrder ==
    /\ [][(pc = "retrieved" /\ Event("llm:score", "error") \in Range(trace')) =>
            (documents' = documents /\ pc' = "compress")]_vars
    /\ [](Event("llm:score", "error") \in Range(trace) =>
            /\ pc # "rag_error"
            /\ trace[Len(trace)].op = "llm:score" =>
                 trace[Len(trace)].outcome = "error"
            /\ PipelineReturned =>
                 /\ { "llm:generate", "llm:validate" } \subseteq Ops
                 /\ rag_result.source_count = Len(documents)
                 /\ rag_result.sources =
                       SubSeq(documents, 1, Min(CONTEXT_DOCS, Len(documents)))
                 /\ context.docs = rag_result.sources)
\* the second of three scoring calls raised after the first had returned text:
\* the documents went on in the order the search gave, which is not the
\* corpus order
C22_Witness ==
    /\ pc = "rag_return"
    /\ Len(documents) = 3
    /\ documents # << 1, 2, 3 >>
    /\ Cardinality(Places("llm:score")) = 2
    /\ Event("llm:score", "ok") \in Range(trace)
    /\ Event("llm:score", "error") \in Range(trace)
    /\ rag_result.sources = documents

\* the place of document d in scored_docs, which is its place in the
\* retrieval order
ScoredPlace(d) == CHOOSE i \in 1..Len(scored_docs) : scored_docs[i][1] = d
\* the prompts of the calls of one kind
PromptsOf(op) == { i \in 1..Len(prompts) : prompts[i].op = op }

\* C23: when no scoring call raises, _rerank_documents rates every retrieved
\* document once, with the query process_query was given in the prompt; every
\* score lies in [0, 1] (a larger number is clamped to 1, a reply without a
\* number scores 0.5); the documents returned are the documents retrieved,
\* none added, lost or repeated, in descending order of score, and documents
\* with equal scores keep their retrieval order.
C23_RerankStableDescending ==
    /\ \A reply \in ScoreReplies \ { [kind |-> "error"] } :
          parse_score(reply) \in 0..100
    /\ parse_score([kind |-> "text", text |-> << << "5" >> >>]) = 100
    /\ parse_score([kind |-> "text",
                    text |-> << << "r","e","l","e","v","a","n","t" >> >>])
         = DEFAULT_SCORE
    /\ (pc = "compress" /\ Event("llm:score", "error") \notin Range(trace)) =>
         /\ Len(scored_docs) = Len(documents)
         /\ Cardinality(Places("llm:score")) = Len(documents)
         /\ Cardinality(PromptsOf("llm:score")) = Len(documents)
         /\ \A i \in PromptsOf("llm:score") :
               prompts[i].message = masked_message
         /\ Range(documents) = { scored_docs[i][1] : i \in 1..Len(scored_docs) }
         /\ Cardinality(Range(documents)) = Len(documents)
         /\ \A i \in 1..Len(scored_docs) : scored_docs[i][2] \in 0..100
         /\ \A i, j \in 1..Len(documents) :
               i < j =>
                 LET a == ScoredPlace(documents[i])
                     b == ScoredPlace(documents[j])
                 IN  \/ scored_docs[a][2] > scored_docs[b][2]
                     \/ scored_docs[a][2] = scored_docs[b][2] /\ a < b
\* three documents scored 0.2, 0.9 and 0.2: the second went first and the two
\* with equal scores kept their retrieval order
C23_Witness ==
    /\ pc = "compress"
    /\ Len(scored_docs) = 3
    /\ scored_docs[1][2] = 20
    /\ scored_docs[2][2] = 90
    /\ scored_docs[3][2] = 20
    /\ documents = << scored_docs[2][1], scored_docs[1][1], scored_docs[3][1] >>

\* process_query assembled its result from documents
Assembled == PipelineReturned /\ rag_result.source_count > 0

\* C24: the documents beyond the top three reranked are dropped for the rest
\* of the request: the compressed context, the reported sources, the facts
\* sent to the validate stage and the document count behind the confidence
\* all come from the same at most three documents, in rerank order.
C24_SameThreeDocuments ==
    Assembled =>
      LET kept == SubSeq(documents, 1, Min(CONTEXT_DOCS, Len(documents)))
      IN  /\ context.docs = kept
          /\ rag_result.sources = kept
          /\ \A i \in 1..Len(check_facts(documents)) :
                check_facts(documents)[i][1] \in Range(kept)
          /\ rag_result.source_count = Len(kept)
          /\ ~ is_hallucinating =>
                rag_result.confidence = unflagged_confidence(Len(kept))

(***************************************************************************)
(* pii_masker.mask_text on its own: a text is masked, and the masked text  *)
(* is masked again.                                                        *)
(***************************************************************************)
\* the longest text is MaxPieces pieces joined by spaces
MaxPieces == 2
\* "ab@x.co", "abc@x.co", "555-123-4567", "123-45-6789",
\* "1234 5678 9012 3456" (test_agents.py:17-33 has an email and a phone
\* number of these shapes), "hot tea"
Pieces ==
    { << "a","b","@","x",".","c","o" >>,
      << "a","b","c","@","x",".","c","o" >>,
      << "5","5","5","-","1","2","3","-","4","5","6","7" >>,
      << "1","2","3","-","4","5","-","6","7","8","9" >>,
      << "1","2","3","4"," ","5","6","7","8"," ","9","0","1","2"," ",
         "3","4","5","6" >>,
      << "h","o","t"," ","t","e","a" >> }
\* the texts of n pieces
RECURSIVE TextsOf(_)
TextsOf(n) ==
    IF n = 1 THEN Pieces
    ELSE { t \o << " " >> \o piece : t \in TextsOf(n - 1), piece \in Pieces }
Texts == UNION { TextsOf(n) : n \in 1..MaxPieces }

InitMask ==
    /\ pc = "mask"
    /\ request \in { [message |-> t] : t \in Texts }
    /\ agent_data = << >>
    /\ trace = << >>
    /\ corpus = << >>
    /\ intent_result = Unset
    /\ rewritten = NoText
    /\ documents = << >>
    /\ context = Unset
    /\ answer = NoText
    /\ is_hallucinating = FALSE
    /\ rag_result = Unset
    /\ response = Unset
    /\ returned = 0
    /\ masked_message = NotMasked
    /\ pii_found = NothingFound
    /\ prompts = << >>
    /\ scored_docs = << >>

\* one call of mask_text: on the message first, then on the text the
\* previous call returned; agent_data holds the results so far
MaskAgain ==
    /\ pc = "mask"
    /\ Len(agent_data) < 2
    /\ LET text == IF agent_data = << >> THEN request.message
                   ELSE agent_data[Len(agent_data)].masked_text
           result == CHOOSE r \in { mask_text(text) } : TRUE
       IN  /\ agent_data' = Append(agent_data, result)
           /\ masked_message' = result.masked_text
           /\ pii_found' = result.pii_found
    /\ trace' = Append(trace, Event("pii:mask_text", "ok"))
    /\ UNCHANGED << pc, corpus, request, intent_result, ragLocals,
                    response, returned, prompts, scored_docs >>

\* the next text
NextText ==
    /\ pc = "mask"
    /\ Len(agent_data) = 2
    /\ request' \in { [message |-> t] : t \in Texts }
    /\ agent_data' = << >>
    /\ trace' = << >>
    /\ masked_message' = NotMasked
    /\ pii_found' = NothingFound
    /\ UNCHANGED << pc, corpus, intent_result, ragLocals, response, returned,
                    prompts, scored_docs >>

NextMask ==
    \/ MaskAgain
    \/ NextText

SpecMask == InitMask /\ [][NextMask]_vars

\* the originals a call of mask_text reported, of every kind
Originals(found) ==
    UNION { { found[k][i].original : i \in 1..Len(found[k]) } : k \in DOMAIN found }

\* C25: masking is idempotent on its own output: masking the masked text of
\* t a second time returns the same text and finds nothing; and the masked
\* text contains no original that the call detected.
C25_MaskIdempotent ==
    /\ \A i \in 1..Len(agent_data) :
          \A original \in Originals(agent_data[i].pii_found) :
             ~ Contains(agent_data[i].masked_text, original)
    /\ Len(agent_data) = 2 =>
          /\ agent_data[2].masked_text = agent_data[1].masked_text
          /\ DOMAIN agent_data[2].pii_found = { }

\* the places of trace where op was called
CallsOf(op) == { i \in 1..Len(trace) : trace[i].op = op }

\* C26: the PII gate runs exactly once per request, before the intent
\* classification, and every later stage works on the masked text: each
\* prompt sent to the generative model embeds the masked message or no
\* message at all, and none contains an original the gate detected.
C26_PromptsMasked ==
    /\ Cardinality(CallsOf("mask_text")) = IF pc = "start" THEN 0 ELSE 1
    /\ \A i \in CallsOf("llm:classify") : \E j \in CallsOf("mask_text") : j < i
    /\ \A i \in 1..Len(prompts) :
          /\ prompts[i].message \in { masked_message, NoMessage }
          /\ \A original \in Originals(pii_found) :
                ~ Contains(prompts[i].message, original)

OFFER_DESCRIPTIONS ==
    << "10% off first order", "Hot Cocoa 10% coupon", "15% off cold beverages",
       "$2 off any pastry", "15% loyalty reward for frequent visitors" >>
INVALID_COUPON_MESSAGE == "Invalid or expired coupon code"

\* a validation that reports the first offer of the table for every code
\* that matches some offer
validate_coupon_first_offer(code) ==
    IF \E i \in 1..Len(OFFERS) : OFFERS[i].code = code
    THEN [ valid |-> TRUE, code |-> code,
           description |-> OFFER_DESCRIPTIONS[1],
           discount |-> OFFERS[1].discount, type |-> OFFERS[1].type ]
    ELSE [ valid |-> FALSE, code |-> code, message |-> INVALID_COUPON_MESSAGE ]
\* OffersAgent.validate_coupon: the first offer whose code is the given one
validate_coupon(code) ==
    LET matching == { i \in 1..Len(OFFERS) : OFFERS[i].code = code }
    IN  IF matching # { }
        THEN LET i == CHOOSE m \in matching : \A n \in matching : m <= n
             IN  [ valid |-> TRUE, code |-> code,
                   description |-> OFFER_DESCRIPTIONS[i],
                   discount |-> OFFERS[i].discount, type |-> OFFERS[i].type ]
        ELSE [ valid |-> FALSE, code |-> code,
               message |-> INVALID_COUPON_MESSAGE ]

\* a customer tries at most MaxCoupons codes
MaxCoupons == 2
\* the codes of the table, the codes of test_validate_coupon, and strings
\* that are no code: another case, an offer id, padded, empty
CouponCodes ==
    { "WELCOME10", "HOT10", "COLD15", "PASTRY20", "LOYALTY15", "INVALID",
      "hot10", "HOT_COCOA_COUPON", "HOT10 ", "", "HOT", "EXPIRED15" }
CouponQueries == { [code |-> c] : c \in CouponCodes }

InitCoupons ==
    /\ pc = "coupons"
    /\ request \in CouponQueries
    /\ agent_data = << >>
    /\ trace = << >>
    /\ corpus = << >>
    /\ intent_result = Unset
    /\ rewritten = NoText
    /\ documents = << >>
    /\ context = Unset
    /\ answer = NoText
    /\ is_hallucinating = FALSE
    /\ rag_result = Unset
    /\ response = Unset
    /\ returned = 0
    /\ masked_message = NotMasked
    /\ pii_found = NothingFound
    /\ prompts = << >>
    /\ scored_docs = << >>

\* one call of validate_coupon; agent_data holds the codes tried so far and
\* what was returned for each; then the customer picks the next code
ValidateCoupon ==
    /\ pc = "coupons"
    /\ Len(agent_data) < MaxCoupons
    /\ agent_data' = Append(agent_data,
                            [ code |-> request.code,
                              result |-> validate_coupon(request.code) ])
    /\ trace' = Append(trace, Event("agent:validate_coupon", "ok"))
    /\ request' \in CouponQueries
    /\ UNCHANGED << pc, corpus, intent_result, ragLocals, response, returned >>
    /\ UNCHANGED << gateLocals, prompts, scored_docs >>

\* the next customer
NextCustomer ==
    /\ pc = "coupons"
    /\ Len(agent_data) = MaxCoupons
    /\ agent_data' = << >>
    /\ trace' = << >>
    /\ UNCHANGED << pc, corpus, request, intent_result, ragLocals,
                    response, returned >>
    /\ UNCHANGED << gateLocals, prompts, scored_docs >>

NextCoupons ==
    \/ ValidateCoupon
    \/ NextCustomer

SpecCoupons == InitCoupons /\ [][NextCoupons]_vars

\* C28: validate_coupon(code) returns valid = true with the matching
\* offer's discount and type exactly when code is the code of an offer of
\* the table ("HOT10": valid, 10 percent); for every other code ("INVALID")
\* it returns valid = false and no discount.
C28_ValidateCoupon ==
    \A k \in 1..Len(agent_data) :
       LET code == agent_data[k].code
           result == agent_data[k].result
           matching == { i \in 1..Len(OFFERS) : OFFERS[i].code = code }
       IN  /\ result.valid <=> matching # { }
           /\ result.code = code
           /\ result.valid =>
                 \A i \in matching : /\ result.discount = OFFERS[i].discount
                                      /\ result.type = OFFERS[i].type
           /\ ~ result.valid => "discount" \notin DOMAIN result
           /\ code = "HOT10" =>
                 /\ result.valid
                 /\ result.discount = 10
                 /\ result.type = "percentage"
           /\ code = "INVALID" => ~ result.valid
\* a customer tried "INVALID" and then "HOT10", or a code of a fixed
\* discount and a string that differs from a code by case only
C28_Witness ==
    /\ Len(agent_data) = 2
    /\ \/ /\ agent_data[1].code = "INVALID"
          /\ agent_data[2].code = "HOT10"
          /\ agent_data[2].result.valid
       \/ /\ agent_data[1].code = "PASTRY20"
          /\ agent_data[1].result.type = "fixed"
          /\ agent_data[2].code = "hot10"
          /\ ~ agent_data[2].result.valid

\* the stages of process_query that leave an event in trace, in pipeline order
StageOps == << "llm:rewrite", "retrieve", "llm:score", "llm:generate", "llm:validate" >>
StageRank(op) == CHOOSE k \in 1..Len(StageOps) : StageOps[k] = op
StagePlaces == { i \in 1..Len(trace) : trace[i].op \in Range(StageOps) }
\* the positions of a request inside process_query, in program order
PcOrder ==
    << "rag", "retrieve", "retrieved", "compress", "generate_answer",
       "validate", "assemble", "rag_error", "rag_return", "done" >>
PcRank(p) == CHOOSE k \in 1..Len(PcOrder) : PcOrder[k] = p
\* _rerank_documents has run on a non-empty retrieval
Reranked == documents # << >> /\ pc # "retrieved"
\* the stages ran in pipeline order, each at most once (rerank: a run of
\* scoring calls), and the context is built by the compress step only
StagesInOrder ==
    /\ [](\A i, j \in StagePlaces :
            i < j => \/ StageRank(trace[i].op) < StageRank(trace[j].op)
                     \/ trace[i].op = "llm:score" /\ trace[j].op = "llm:score")
    /\ [][pc' # "rag" => PcRank(pc') > PcRank(pc)]_vars
    /\ [][context' # context =>
            \/ pc = "compress" /\ pc' = "generate_answer"
            \/ pc' = "rag"]_vars
\* no documents: the request returned without a score, generate or
\* validate call
ShortCircuit ==
    [](("retrieve" \in Ops /\ documents = << >> /\ pc \notin { "retrieve", "retrieved" })
         => /\ pc \in { "rag_return", "done" }
            /\ Ops \cap { "llm:score", "llm:generate", "llm:validate" } = { })

\* C29 as stated: within one RAG request the stages run strictly in the
\* order rewrite, retrieve, rerank, compress, generate, validate, each at
\* most once, with exactly one scoring call per retrieved document; with
\* zero documents retrieved no rerank, generate or validate call is issued.
C29_StagesInOrderOneScorePerDocument ==
    /\ StagesInOrder
    /\ ShortCircuit
    /\ [](Reranked => Cardinality(CallsOf("llm:score")) = Len(documents))
\* C29, amended: the same order and short circuit; rerank issues at most
\* one scoring call per retrieved document, exactly one per document when
\* no scoring call raises, and none after a scoring call that raised.
C29_StagesInOrderScoringStopsAtError ==
    /\ StagesInOrder
    /\ ShortCircuit
    /\ [](Reranked =>
            /\ Cardinality(CallsOf("llm:score")) <= Len(documents)
            /\ Event("llm:score", "error") \notin Range(trace)
                  => Cardinality(CallsOf("llm:score")) = Len(documents)
            /\ \A i \in CallsOf("llm:score") :
                  trace[i].outcome = "error"
                    => \A j \in CallsOf("llm:score") : j <= i)
\* a request returned whose first scoring call raised with three documents
\* retrieved, after which the remaining stages ran
C29_Witness ==
    /\ pc = "done"
    /\ Len(documents) = 3
    /\ Cardinality(CallsOf("llm:score")) = 1
    /\ Event("llm:score", "error") \in Range(trace)
    /\ { "llm:rewrite", "retrieve", "llm:generate", "llm:validate" } \subseteq Ops

\* C30: in every ChatResponse returned by process_request the escalation
\* flag and the confidence agree with the routing threshold:
\* requires_escalation = false implies confidence >= CONFIDENCE_THRESHOLD,
\* and requires_escalation = true implies confidence < CONFIDENCE_THRESHOLD.
C30_EscalationAgreesWithThreshold ==
    response # Unset =>
      /\ ~ response.requires_escalation
            => FloatGe(response.confidence, CONFIDENCE_THRESHOLD)
      /\ response.requires_escalation
            => FloatLt(response.confidence, CONFIDENCE_THRESHOLD)

====
